---- MODULE Spec2Model ----
(***************************************************************************)
(* Model of the document-to-audio pipeline of the audiobooks application.  *)
(*                                                                         *)
(* Queued mode: the Celery tasks of audiobooks/tasks.py                    *)
(*   process_book_pdf, generate_page_audio, update_book_progress,          *)
(*   cleanup_failed_books, retry_failed_pages.                             *)
(* Inline mode: audiobooks/audio_generator.py                              *)
(*   generate_audio_for_page, generate_all_audio_for_book.                 *)
(*                                                                         *)
(* The database rows (Book, BookPage) are the shared state.  Every task    *)
(* works on its own copy of a row (a Django model instance) and            *)
(* Model.save() writes every field of that copy back, so each task keeps   *)
(* its local copies (lp, lb) and a program counter between two database    *)
(* accesses.  Time is kept relative and on two scales.  A job's eta is the *)
(* remaining countdown of its re-delivery, in seconds.  The two thresholds *)
(* of the periodic sweeps are flags: stale = Book.modified_at (auto_now)   *)
(* is more than two hours ago, old = BookPage.created_at (auto_now_add) of *)
(* the pages, which are created in one batch, is more than 24 hours ago.   *)
(* A step that lets a countdown expire does not cross a threshold; the     *)
(* steps TwoHoursPass and DayPasses do, and expire every countdown.        *)
(* sse is the generator of the streamed upload (BookUploadView             *)
(* ._post_with_sse.event_stream): its position, the events it has yielded, *)
(* the progress events its callback has collected, the number of pages     *)
(* the extraction has processed and whether its temporary file exists.     *)
(* A regular upload (_post_regular) uses the same record: its response is  *)
(* its only event.  reason is the kind of error reported.                  *)
(* ex is one call of a text extraction strategy (PDFProcessor,             *)
(* PDFProcessorOCR, PDFProcessorGemini) and tts one call of the speech     *)
(* synthesis engine (TTSGenerator); each has a specification of its own.   *)
(* SpecPersist follows process_book_pdf statement by statement (one        *)
(* BookPage.objects.create and one generate_page_audio.delay per step),    *)
(* where Spec takes its success path as one step.                          *)
(***************************************************************************)
EXTENDS Integers, Sequences, FiniteSets, TLC

VARIABLES mode, doc, book, pages, extract, jobs, inl, io, stale, old, faults, sse,
          ex, tts

vars == <<mode, doc, book, pages, extract, jobs, inl, io, stale, old, faults, sse,
         ex, tts>>

\* ---------------------------------------------------------------- bounds
MaxPages     == 2      \* pages of the uploaded document
MaxSweepJobs == 1      \* jobs the periodic retry sweep may add in a run
MaxDuration  == 1      \* longest synthesized audio, in seconds
MaxRuns      == 2      \* invocations of generate_all_audio_for_book
MaxFaults    == 4      \* failures of the external services in a run
MaxDeliveries == 2     \* deliveries of the process_book_pdf message
MaxFairPages == 1      \* pages of the document in the fair specification

\* ------------------------------------------------------ program constants
max_retries      == 3        \* @shared_task(bind=True, max_retries=3)
ExtractCountdown == 60       \* self.retry(exc=e, countdown=60)
BackoffBase      == 60       \* 60 * (3 ** self.request.retries)
BackoffFactor    == 3
StaleAfter       == 7200     \* timedelta(hours=2)
GeminiAttempts   == 3        \* _extract_with_retry(..., max_retries=3)
QuotaAttempts    == 1        \* _extract_with_retry(..., max_retries=1)
DefaultDelay     == 15       \* retry_delay = 15
QuotaCooldown    == 60       \* time.sleep(60)
RetryWindow      == 86400    \* timedelta(hours=24)

\* ------------------------------------------------------------- page text
\* A page text is a sequence of characters.
Texts == { << >>, <<" ">>, <<"a">> }

\* the whitespace characters of str.strip() and str.split()
Whitespace == {" ", "\n"}

RECURSIVE LStrip(_)
LStrip(s) == IF s # << >> /\ Head(s) \in Whitespace THEN LStrip(Tail(s)) ELSE s

RECURSIVE RStrip(_)
RStrip(s) == IF s # << >> /\ s[Len(s)] \in Whitespace
             THEN RStrip(SubSeq(s, 1, Len(s) - 1)) ELSE s

\* str.strip()
Strip(s) == RStrip(LStrip(s))

\* the check without strip(): only the empty string counts as no text
NoText_NoStrip(s) == s = << >>

\* not page.text_content or page.text_content.strip() == ""
NoText(s) == s = << >> \/ Strip(s) = << >>

\* ------------------------------------------------------------ the records
NoAudio == 0

\* an upload whose result carries no asset reference
AudioUrl_None(p) == NoAudio

\* secure_url of the asset uploaded under public_id page_{page_number:04d}
AudioUrl(p) == p

\* BookPage.objects.create(book, page_number, text_content, 'pending')
NewPage(text) ==
    [text |-> text, status |-> "pending", audio |-> NoAudio, duration |-> 0,
     error |-> "none"]

NoPage == [text |-> << >>, status |-> "none", audio |-> NoAudio,
           duration |-> 0, error |-> "none"]

NoBook == [status |-> "none", progress |-> 0, total_pages |-> 0,
           total_duration |-> 0, error |-> "none"]

\* a save that writes the instance over every row of the document
SavePage_All(ps, p, lp) == [q \in DOMAIN ps |-> lp]

\* BookPage.save(): every field of the instance is written to the row
SavePage(ps, p, lp) == [ps EXCEPT ![p] = lp]

\* book.pages.filter(processing_status='completed').count()
CompletedCount(ps) == Cardinality({p \in DOMAIN ps : ps[p].status = "completed"})

RECURSIVE SumDuration(_, _)
\* sum(page.audio_duration for page in book.pages.all())
SumDuration(ps, n) == IF n = 0 THEN 0 ELSE ps[n].duration + SumDuration(ps, n - 1)

\* int((completed_pages / total_pages) * 100); the float product truncates
\* to the integer quotient for every total below 50 (29/50 is the first
\* pair that differs).
Percent(c, t) == (c * 100) \div t

\* a backoff that doubles instead of tripling
RetryCountdown_Doubling(retries) == BackoffBase * (2 ^ retries)

\* 60 * (3 ** self.request.retries)
RetryCountdown(retries) == BackoffBase * (BackoffFactor ^ retries)

\* a task that is re-delivered without limit
RetriesExhausted_Never(retries) == FALSE

\* self.retry(): Celery re-raises the exception instead of re-delivering
\* the task once request.retries has reached max_retries.
RetriesExhausted(retries) == retries >= max_retries

\* is_rate_limit = '429' in error_msg or 'rate limit' in error_msg.lower()
ErrorKinds == {"rate", "other"}
IsRateLimit(kind) == kind = "rate"

\* a handler that leaves a rate-limited page pending on its last failure
MarksFailed_OtherOnly(kind, retries) == ~IsRateLimit(kind)

\* if not is_rate_limit or self.request.retries >= self.max_retries
MarksFailed(kind, retries) == ~IsRateLimit(kind) \/ retries >= max_retries

Durations == 1..MaxDuration

\* the task without its 'already processed' check
AlreadyProcessed_Never(lp) == FALSE

\* generate_page_audio: if page.processing_status == 'completed'
AlreadyProcessed(lp) == lp.status = "completed"

\* generate_audio_for_page:
\* if page.processing_status == 'completed' and page.audio_file
AlreadyProcessedInline(lp) == lp.status = "completed" /\ lp.audio # NoAudio

\* tmp: the temporary audio file of the running attempt exists
NewJob(p, origin) ==
    [page |-> p, retries |-> 0, eta |-> 0, pc |-> "queued", origin |-> origin,
     lp |-> NoPage, lb |-> NoBook, tmp |-> FALSE]

\* What the latest step did towards the outside: the page it worked on,
\* whether the speech synthesis call (TTSGenerator.generate_audio) and the
\* asset upload (cloudinary.uploader.upload) were made, the error they
\* raised, and the message of the result the task or function returned;
\* temp says what became of the temporary audio file of the step: "none"
\* when tempfile.NamedTemporaryFile was not reached, "removed" when the
\* finally block closed and removed it, "open" when it exists and the run
\* goes on, "left" when it still exists after the run.
NoIO == [page |-> 0, tts |-> FALSE, upload |-> FALSE, error |-> "none",
         returned |-> "none", temp |-> "none"]

\* the task or function returned {'success': True, 'message': msg}
Returned(p, msg) == [NoIO EXCEPT !.page = p, !.returned = msg]

\* synthesis and upload were called and succeeded
Synthesized(p, msg) ==
    [page |-> p, tts |-> TRUE, upload |-> TRUE, error |-> "none", returned |-> msg,
     temp |-> "removed"]

\* a handler that runs without the finally block of the synthesis
Raised_NoFinally(p, stage, kind) ==
    [page |-> p, tts |-> TRUE, upload |-> stage = "upload", error |-> kind,
     returned |-> "none", temp |-> "left"]

\* synthesis was called; it raised, or the upload called after it did; the
\* finally block removed the temporary file before the handler ran
Raised(p, stage, kind) ==
    [page |-> p, tts |-> TRUE, upload |-> stage = "upload", error |-> kind,
     returned |-> "none", temp |-> "removed"]

\* no extraction call and no synthesis call is being made
NoExtraction == [pc |-> "none"]
NoSynthesis == [pc |-> "none"]

\* the generator of a request that is not a streamed upload
NoStream == [pc |-> "none", events |-> << >>, buffered |-> << >>, ocr |-> 0,
             success |-> FALSE, tmp |-> FALSE, reason |-> "none"]

\* ------------------------------------------------------------------ Init
\* queued: the Book row of a fresh upload (status 'uploaded', no pages) and
\* one process_book_pdf task in the queue.  inline: the Book and BookPage
\* rows as the upload view creates them (Book 'processing', pages 'pending').
Init ==
    /\ mode \in {"queued", "inline"}
    /\ doc \in UNION {[1..n -> Texts] : n \in 0..MaxPages}
    /\ book = [status |-> IF mode = "queued" THEN "uploaded" ELSE "processing",
               progress |-> 0,
               total_pages |-> IF mode = "queued" THEN 0 ELSE Len(doc),
               total_duration |-> 0, error |-> "none"]
    /\ pages = IF mode = "queued" THEN << >>
               ELSE [p \in 1..Len(doc) |-> NewPage(doc[p])]
    /\ extract = [pc |-> IF mode = "queued" THEN "queued" ELSE "none",
                  retries |-> 0, eta |-> 0, lb |-> NoBook]
    /\ jobs = << >>
    /\ inl = [pc |-> IF mode = "inline" THEN "idle" ELSE "none", idx |-> 0,
              lpages |-> << >>, lb |-> NoBook, success_count |-> 0,
              failed_count |-> 0, skipped_count |-> 0, total_duration |-> 0,
              runs |-> 0, pre |-> NoPage, called |-> << >>]
    /\ io = NoIO
    /\ stale = FALSE
    /\ old = FALSE
    /\ faults = 0
    /\ sse = NoStream
    /\ ex = NoExtraction
    /\ tts = NoSynthesis

\* ------------------------------------------------- process_book_pdf (task)
\* book = Book.objects.get(id); book.processing_status = 'processing'; save
ExtractStart ==
    /\ extract.pc = "queued" /\ extract.eta = 0
    /\ LET lb == [book EXCEPT !.status = "processing"] IN
         /\ book' = lb /\ stale' = FALSE
         /\ extract' = [extract EXCEPT !.pc = "run", !.lb = lb]
    /\ io' = NoIO
    /\ UNCHANGED <<ex, tts, sse, mode, doc, pages, jobs, inl, old, faults>>

\* extraction succeeded: total_pages saved, one BookPage per page created,
\* one generate_page_audio task per page number enqueued
ExtractOk ==
    /\ extract.pc = "run"
    /\ book' = [extract.lb EXCEPT !.total_pages = Len(doc)] /\ stale' = FALSE
    /\ pages' = [p \in 1..Len(doc) |-> NewPage(doc[p])]
    /\ old' = FALSE
    /\ jobs' = jobs \o [p \in 1..Len(doc) |-> NewJob(p, "initial")]
    /\ extract' = [extract EXCEPT !.pc = "done", !.retries = 0, !.lb = NoBook]
    /\ io' = NoIO
    /\ UNCHANGED <<ex, tts, sse, mode, doc, inl, faults>>

\* download or extraction raised: the handler re-reads the Book, marks it
\* failed with the error detail, and calls self.retry(countdown=60)
ExtractFail ==
    /\ faults < MaxFaults
    /\ extract.pc = "run"
    /\ book' = [book EXCEPT !.status = "failed", !.error = "extraction"]
    /\ stale' = FALSE
    /\ extract' = IF RetriesExhausted(extract.retries)
                  THEN [extract EXCEPT !.pc = "dead", !.lb = NoBook]
                  ELSE [extract EXCEPT !.pc = "queued", !.lb = NoBook,
                                       !.retries = extract.retries + 1,
                                       !.eta = ExtractCountdown]
    /\ io' = NoIO
    /\ UNCHANGED <<ex, tts, sse, mode, doc, pages, jobs, inl, old>>
    /\ faults' = faults + 1

\* ---------------------------------------------- generate_page_audio (task)
\* Book and BookPage are read; a completed page returns 'Already processed';
\* otherwise the page is saved as 'processing'.
JobStart(j) ==
    /\ jobs[j].pc = "queued" /\ jobs[j].eta = 0
    /\ LET p  == jobs[j].page
           lp == pages[p]
       IN IF AlreadyProcessed(lp)
          THEN /\ jobs' = [jobs EXCEPT ![j].pc = "done"]
               /\ pages' = pages
               /\ io' = Returned(p, "Already processed")
          ELSE /\ jobs' = [jobs EXCEPT ![j].pc = "run", ![j].lb = book,
                                       ![j].lp = [lp EXCEPT !.status = "processing"]]
               /\ pages' = SavePage(pages, p, [lp EXCEPT !.status = "processing"])
               /\ io' = NoIO
    /\ UNCHANGED <<ex, tts, sse, mode, doc, book, extract, inl, stale, old, faults>>

\* no text: the page is saved completed with 'No text content' and the task
\* returns; update_book_progress is not called on this path
JobSkip(j) ==
    /\ jobs[j].pc = "run" /\ NoText(jobs[j].lp.text)
    /\ LET lp == [jobs[j].lp EXCEPT !.status = "completed",
                                    !.error = "No text content"]
       IN /\ pages' = SavePage(pages, jobs[j].page, lp)
          /\ jobs' = [jobs EXCEPT ![j].pc = "done", ![j].lp = NoPage,
                                  ![j].lb = NoBook]
    /\ io' = Returned(jobs[j].page, "No text content")
    /\ UNCHANGED <<ex, tts, sse, mode, doc, book, extract, inl, stale, old, faults>>

\* TTSGenerator.generate_audio and cloudinary.uploader.upload succeeded;
\* the page is saved completed with the asset url and the duration; the
\* temporary file stays until update_book_progress has returned
JobSynth(j, d) ==
    /\ jobs[j].pc = "run" /\ ~NoText(jobs[j].lp.text)
    /\ LET p  == jobs[j].page
           lp == [jobs[j].lp EXCEPT !.audio = AudioUrl(p), !.duration = d,
                                    !.status = "completed"]
       IN /\ pages' = SavePage(pages, p, lp)
          /\ jobs' = [jobs EXCEPT ![j].pc = "aggregate", ![j].lp = NoPage,
                                  ![j].tmp = TRUE]
          /\ io' = [Synthesized(p, "none") EXCEPT !.temp = "open"]
    /\ UNCHANGED <<ex, tts, sse, mode, doc, book, extract, inl, stale, old, faults>>

\* synthesis (stage "tts") or upload (stage "upload") raised: the handler
\* re-reads the page, marks it failed or pending, saves it and calls
\* self.retry(countdown=60 * 3 ** retries)
JobFail(j, kind, stage) ==
    /\ faults < MaxFaults
    /\ jobs[j].pc = "run" /\ ~NoText(jobs[j].lp.text)
    /\ LET p  == jobs[j].page
           r  == jobs[j].retries
           lp == IF MarksFailed(kind, r)
                 THEN [pages[p] EXCEPT !.status = "failed", !.error = kind]
                 ELSE [pages[p] EXCEPT !.status = "pending"]
       IN /\ pages' = SavePage(pages, p, lp)
          /\ jobs' = IF RetriesExhausted(r)
                     THEN [jobs EXCEPT ![j].pc = "dead", ![j].lp = NoPage,
                                       ![j].lb = NoBook]
                     ELSE [jobs EXCEPT ![j].pc = "queued", ![j].lp = NoPage,
                                       ![j].lb = NoBook,
                                       ![j].retries = r + 1,
                                       ![j].eta = RetryCountdown(r)]
          /\ io' = Raised(p, stage, kind)
    /\ UNCHANGED <<ex, tts, sse, mode, doc, book, extract, inl, stale, old>>
    /\ faults' = faults + 1

\* -------------------------------------------------- update_book_progress
\* The reads: book = Book.objects.get(id), the two page counts and, when
\* every page is completed, the sum of the page durations.  The progress,
\* status and total duration are set on the local copy.
JobAggregate(j) ==
    /\ jobs[j].pc = "aggregate"
    /\ LET total     == Len(pages)
           completed == CompletedCount(pages)
           lb1       == [book EXCEPT !.progress = Percent(completed, total)]
           lb2       == IF completed = total
                        THEN [lb1 EXCEPT !.status = "completed",
                                         !.total_duration = SumDuration(pages, total)]
                        ELSE lb1
       IN jobs' = IF total > 0
                  THEN [jobs EXCEPT ![j].pc = "save", ![j].lb = lb2]
                  ELSE [jobs EXCEPT ![j].pc = "done", ![j].lb = NoBook,
                                    ![j].tmp = FALSE]
    /\ io' = IF Len(pages) > 0 THEN NoIO
             ELSE [Returned(jobs[j].page, "generated") EXCEPT !.temp = "removed"]
    /\ UNCHANGED <<ex, tts, sse, mode, doc, book, pages, extract, inl, stale, old, faults>>

\* The write: book.save() of the local copy; the finally block removes the
\* temporary file and the task returns success.
JobSave(j) ==
    /\ jobs[j].pc = "save"
    /\ book' = jobs[j].lb /\ stale' = FALSE
    /\ jobs' = [jobs EXCEPT ![j].pc = "done", ![j].lb = NoBook, ![j].tmp = FALSE]
    /\ io' = [Returned(jobs[j].page, "generated") EXCEPT !.temp = "removed"]
    /\ UNCHANGED <<ex, tts, sse, mode, doc, pages, extract, inl, old, faults>>

\* ------------------------------------------------------ periodic sweeps
\* Book.objects.filter(processing_status='processing',
\*                     modified_at__lt=now - 2h)
IsStuck(b, isStale) == b.status = "processing" /\ isStale

\* cleanup_failed_books
CleanupFailedBooks ==
    /\ mode = "queued"
    /\ IsStuck(book, stale)
    /\ book' = [book EXCEPT !.status = "failed", !.error = "Processing timeout"]
    /\ stale' = FALSE
    /\ io' = NoIO
    /\ UNCHANGED <<ex, tts, sse, mode, doc, pages, extract, jobs, inl, old, faults>>

\* BookPage.objects.filter(processing_status='failed',
\*                         created_at__gte=now - 24h)
FailedPages(ps, isOld) ==
    {p \in DOMAIN ps : ps[p].status = "failed" /\ ~isOld}

RECURSIVE SweepJobs(_, _)
\* one generate_page_audio.delay(book id, page number) per selected page,
\* in the model's default ordering (book, page_number)
SweepJobs(S, n) ==
    IF n = 0 THEN << >>
    ELSE IF n \in S THEN Append(SweepJobs(S, n - 1), NewJob(n, "sweep"))
         ELSE SweepJobs(S, n - 1)

\* retry_failed_pages
RetryFailedPages ==
    /\ mode = "queued"
    /\ FailedPages(pages, old) # {}
    /\ Len(jobs) + Cardinality(FailedPages(pages, old)) <= Len(pages) + MaxSweepJobs
    /\ jobs' = jobs \o SweepJobs(FailedPages(pages, old), Len(pages))
    /\ io' = NoIO
    /\ UNCHANGED <<ex, tts, sse, mode, doc, book, pages, extract, inl, stale, old, faults>>

\* ------------------------------------------------------------------ time
Max(a, b) == IF a > b THEN a ELSE b

\* the countdowns still running
Countdowns == {e \in {jobs[j].eta : j \in DOMAIN jobs} \cup {extract.eta} : e > 0}

\* the countdown that expires first
NextCountdown == CHOOSE d \in Countdowns : \A e \in Countdowns : d <= e

\* every countdown d seconds later
Elapse(js, d) == [j \in DOMAIN js |-> [js[j] EXCEPT !.eta = Max(0, @ - d)]]

\* Time advances to the expiry of the earliest countdown.
CountdownExpires ==
    /\ mode = "queued"
    /\ Countdowns # {}
    /\ jobs' = Elapse(jobs, NextCountdown)
    /\ extract' = [extract EXCEPT !.eta = Max(0, @ - NextCountdown)]
    /\ io' = NoIO
    /\ UNCHANGED <<ex, tts, sse, mode, doc, book, pages, inl, stale, old, faults>>

\* More than two hours pass without a save of the Book.  Only a Book in
\* status 'processing' is looked at by the staleness sweep, and every save
\* restarts the two hours, so the step is taken for such a Book only.
TwoHoursPass ==
    /\ mode = "queued"
    /\ ~stale /\ book.status = "processing"
    /\ stale' = TRUE
    /\ jobs' = Elapse(jobs, StaleAfter + 1)
    /\ extract' = [extract EXCEPT !.eta = Max(0, @ - (StaleAfter + 1))]
    /\ io' = NoIO
    /\ UNCHANGED <<ex, tts, sse, mode, doc, book, pages, inl, old, faults>>

\* More than 24 hours pass since the pages were created.
DayPasses ==
    /\ mode = "queued"
    /\ Len(pages) > 0 /\ ~old
    /\ old' = TRUE
    /\ stale' = TRUE
    /\ jobs' = Elapse(jobs, RetryWindow + 1)
    /\ extract' = [extract EXCEPT !.eta = Max(0, @ - (RetryWindow + 1))]
    /\ io' = NoIO
    /\ UNCHANGED <<ex, tts, sse, mode, doc, book, pages, inl, faults>>

\* ------------------------------------- generate_all_audio_for_book (inline)
\* pages = BookPage.objects.filter(book=book).order_by('page_number');
\* the counters start at 0 and the loop starts at the first page
InlineBegin ==
    /\ mode = "inline"
    /\ inl.pc = "idle" /\ inl.runs < MaxRuns
    /\ inl' = [pc |-> IF Len(pages) = 0 THEN "finish" ELSE "page", idx |-> 1,
               lpages |-> pages, lb |-> book, success_count |-> 0,
               failed_count |-> 0, skipped_count |-> 0, total_duration |-> 0,
               runs |-> inl.runs + 1, pre |-> NoPage, called |-> << >>]
    /\ io' = NoIO
    /\ UNCHANGED <<ex, tts, sse, mode, doc, book, pages, extract, jobs, stale, old, faults>>

\* a loop that calls the callback and stays on the same page
NextPage_Again(r) ==
    [r EXCEPT !.called = Append(@, r.idx), !.pc = "page"]

\* progress_callback(page.page_number, total_pages, result); the loop moves
\* to the next page, or leaves the loop after the last one
NextPage(r) ==
    [r EXCEPT !.idx = @ + 1,
              !.called = Append(@, r.idx),
              !.pc = IF r.idx = Len(r.lpages) THEN "finish" ELSE "page"]

\* generate_audio_for_page, first part (pre keeps the page row as it was
\* when the function was called): a page that is completed and has an
\* audio file returns 'Already processed' (counted as a success, with its
\* duration); any other page is saved as 'processing'
InlinePageStart ==
    /\ inl.pc = "page"
    /\ LET p  == inl.idx
           lp == inl.lpages[p]
       IN IF AlreadyProcessedInline(lp)
          THEN /\ inl' = NextPage([inl EXCEPT !.success_count = @ + 1,
                                              !.total_duration = @ + lp.duration,
                                              !.pre = pages[p]])
               /\ pages' = pages
               /\ io' = Returned(p, "Already processed")
          ELSE /\ inl' = [inl EXCEPT !.pc = "run", !.pre = pages[p],
                                     !.lpages[p].status = "processing"]
               /\ pages' = SavePage(pages, p, [lp EXCEPT !.status = "processing"])
               /\ io' = NoIO
    /\ UNCHANGED <<ex, tts, sse, mode, doc, book, extract, jobs, stale, old, faults>>

\* no text: the page is saved completed with 'No text content'; the result
\* 'No text content (skipped)' is counted as skipped
InlineSkip ==
    /\ inl.pc = "run" /\ NoText(inl.lpages[inl.idx].text)
    /\ LET p  == inl.idx
           lp == [inl.lpages[p] EXCEPT !.status = "completed",
                                       !.error = "No text content"]
       IN /\ pages' = SavePage(pages, p, lp)
          /\ inl' = NextPage([inl EXCEPT !.lpages[p] = lp,
                                         !.skipped_count = @ + 1])
    /\ io' = Returned(inl.idx, "No text content (skipped)")
    /\ UNCHANGED <<ex, tts, sse, mode, doc, book, extract, jobs, stale, old, faults>>

\* synthesis and upload succeeded: the page is saved completed; the result
\* is counted as a success and its duration added
InlineSynth(d) ==
    /\ inl.pc = "run" /\ ~NoText(inl.lpages[inl.idx].text)
    /\ LET p  == inl.idx
           lp == [inl.lpages[p] EXCEPT !.audio = AudioUrl(p), !.duration = d,
                                       !.status = "completed"]
       IN /\ pages' = SavePage(pages, p, lp)
          /\ inl' = NextPage([inl EXCEPT !.lpages[p] = lp,
                                         !.success_count = @ + 1,
                                         !.total_duration = @ + d])
          /\ io' = Synthesized(p, "Audio generated successfully")
    /\ UNCHANGED <<ex, tts, sse, mode, doc, book, extract, jobs, stale, old, faults>>

\* a page function that lets the exception out: the loop is left
InlineFail_Aborts(kind, stage) ==
    /\ faults < MaxFaults
    /\ inl.pc = "run" /\ ~NoText(inl.lpages[inl.idx].text)
    /\ LET p  == inl.idx
           lp == [inl.lpages[p] EXCEPT !.status = "failed", !.error = kind]
       IN /\ pages' = SavePage(pages, p, lp)
          /\ inl' = [inl EXCEPT !.lpages[p] = lp, !.pc = "finish"]
          /\ io' = Raised(p, stage, kind)
    /\ UNCHANGED <<ex, tts, sse, mode, doc, book, extract, jobs, stale, old>>
    /\ faults' = faults + 1

\* synthesis or upload raised: the page is saved failed with the error
\* message; the result is counted as failed
InlineFail(kind, stage) ==
    /\ faults < MaxFaults
    /\ inl.pc = "run" /\ ~NoText(inl.lpages[inl.idx].text)
    /\ LET p  == inl.idx
           lp == [inl.lpages[p] EXCEPT !.status = "failed", !.error = kind]
       IN /\ pages' = SavePage(pages, p, lp)
          /\ inl' = NextPage([inl EXCEPT !.lpages[p] = lp,
                                         !.failed_count = @ + 1])
          /\ io' = Raised(p, stage, kind)
    /\ UNCHANGED <<ex, tts, sse, mode, doc, book, extract, jobs, stale, old>>
    /\ faults' = faults + 1

\* after the loop: the book is saved completed, with progress 100 when no
\* page failed and int((success_count + skipped_count) / total_pages * 100)
\* otherwise, and with the accumulated duration
InlineFinish ==
    /\ inl.pc = "finish"
    /\ book' = [inl.lb EXCEPT
                  !.status = "completed",
                  !.progress = IF inl.failed_count = 0 THEN 100
                               ELSE Percent(inl.success_count + inl.skipped_count,
                                            Len(inl.lpages)),
                  !.total_duration = inl.total_duration]
    /\ stale' = FALSE
    /\ inl' = [inl EXCEPT !.pc = "idle", !.lpages = << >>, !.lb = NoBook,
                          !.pre = NoPage]
    /\ io' = NoIO
    /\ UNCHANGED <<ex, tts, sse, mode, doc, pages, extract, jobs, old, faults>>

\* ------------------------------------------------------------------ Next
Stages == {"tts", "upload"}

Next ==
    \/ ExtractStart
    \/ ExtractOk
    \/ ExtractFail
    \/ \E j \in DOMAIN jobs : JobStart(j)
    \/ \E j \in DOMAIN jobs : JobSkip(j)
    \/ \E j \in DOMAIN jobs, d \in Durations : JobSynth(j, d)
    \/ \E j \in DOMAIN jobs, kind \in ErrorKinds, stage \in Stages :
          JobFail(j, kind, stage)
    \/ \E j \in DOMAIN jobs : JobAggregate(j)
    \/ \E j \in DOMAIN jobs : JobSave(j)
    \/ CleanupFailedBooks
    \/ RetryFailedPages
    \/ CountdownExpires
    \/ TwoHoursPass
    \/ DayPasses
    \/ InlineBegin
    \/ InlinePageStart
    \/ InlineSkip
    \/ \E d \in Durations : InlineSynth(d)
    \/ \E kind \in ErrorKinds, stage \in Stages : InlineFail(kind, stage)
    \/ InlineFinish

Spec == Init /\ [][Next]_vars

\* ------------------------------------------- queued mode, scheduled fairly
\* a document handed to process_book_pdf
InitQueued == Init /\ mode = "queued" /\ Len(doc) <= MaxFairPages

QueuedNext ==
    \/ ExtractStart
    \/ ExtractOk
    \/ ExtractFail
    \/ \E j \in DOMAIN jobs : JobStart(j)
    \/ \E j \in DOMAIN jobs : JobSkip(j)
    \/ \E j \in DOMAIN jobs, d \in Durations : JobSynth(j, d)
    \/ \E j \in DOMAIN jobs, kind \in ErrorKinds, stage \in Stages :
          JobFail(j, kind, stage)
    \/ \E j \in DOMAIN jobs : JobAggregate(j)
    \/ \E j \in DOMAIN jobs : JobSave(j)
    \/ CleanupFailedBooks
    \/ RetryFailedPages
    \/ CountdownExpires
    \/ TwoHoursPass
    \/ DayPasses

\* the places of the task queue
JobSlots == 1..(MaxFairPages + MaxSweepJobs)

\* a worker takes the delivered task j
Delivered(j) == j \in DOMAIN jobs /\ JobStart(j)

\* the attempt of task j ends: it returns or it raises
AttemptEnds(j) ==
    /\ j \in DOMAIN jobs
    /\ \/ JobSkip(j)
       \/ \E d \in Durations : JobSynth(j, d)
       \/ \E kind \in ErrorKinds, stage \in Stages : JobFail(j, kind, stage)

\* update_book_progress of task j goes on
Aggregates(j) == j \in DOMAIN jobs /\ (JobAggregate(j) \/ JobSave(j))

\* Workers do not crash and the queue is served: a delivered task is
\* started, a started attempt ends, and countdowns expire.  The periodic
\* sweeps and the failures of the services are not forced.
Fairness ==
    /\ WF_vars(ExtractStart)
    /\ WF_vars(ExtractOk \/ ExtractFail)
    /\ WF_vars(CountdownExpires)
    /\ \A j \in JobSlots :
          /\ WF_vars(Delivered(j))
          /\ WF_vars(AttemptEnds(j))
          /\ WF_vars(Aggregates(j))

SpecFair == InitQueued /\ [][QueuedNext]_vars /\ Fairness

\* ------------------------- BookUploadView._post_with_sse.event_stream
\* send_sse_event(event_type, data); page is the page of a page_progress
\* event and 0 for every other event
Event(type, page) == [type |-> type, page |-> page]

\* yield <event>: the event is put on the stream and the generator is
\* suspended at the position pc
Yield(st, type, page, pc) ==
    [st EXCEPT !.events = Append(@, Event(type, page)), !.pc = pc]

\* an error event that is not followed by return
ErrorReturn_NoReturn(st) == Yield(st, "error", 0, st.pc)

\* yield send_sse_event('error', ...); return   (and the except handler,
\* whose yield is the last statement of the generator)
ErrorReturn(st) == Yield(st, "error", 0, "closed")

\* a streamed upload request: nothing is stored yet
InitStream ==
    /\ mode = "stream"
    /\ doc \in UNION {[1..n -> Texts] : n \in 0..MaxPages}
    /\ book = NoBook
    /\ pages = << >>
    /\ extract = [pc |-> "none", retries |-> 0, eta |-> 0, lb |-> NoBook]
    /\ jobs = << >>
    /\ inl = [pc |-> "none", idx |-> 0, lpages |-> << >>, lb |-> NoBook,
              success_count |-> 0, failed_count |-> 0, skipped_count |-> 0,
              total_duration |-> 0, runs |-> 0, pre |-> NoPage,
              called |-> << >>]
    /\ io = NoIO
    /\ stale = FALSE
    /\ old = FALSE
    /\ faults = 0
    /\ sse = [NoStream EXCEPT !.pc = "start"]
    /\ ex = NoExtraction
    /\ tts = NoSynthesis

\* Book.objects.create(..., total_pages, processing_status='processing')
UploadedBook(n) == [NoBook EXCEPT !.status = "processing", !.total_pages = n]

\* what the generator leaves alone while it only yields
StreamOnly == UNCHANGED <<ex, tts, mode, doc, book, pages, extract, jobs, inl, io,
                          stale, old, faults>>

\* yield 'status' (Authenticating...)
StreamOpen ==
    /\ sse.pc = "start"
    /\ sse' = Yield(sse, "status", 0, "auth")
    /\ StreamOnly

\* get_user_from_token raised AuthenticationFailed
StreamAuthFailed ==
    /\ sse.pc = "auth"
    /\ sse' = [ErrorReturn(sse) EXCEPT !.reason = "auth"]
    /\ StreamOnly

\* the user is authenticated; yield 'status' (Validating file...)
StreamAuthenticated ==
    /\ sse.pc = "auth"
    /\ sse' = Yield(sse, "status", 0, "validate")
    /\ StreamOnly

\* a validation that is made after the Book has been created
StreamRejected_Late ==
    /\ sse.pc = "validate"
    /\ sse' = [ErrorReturn(sse) EXCEPT !.reason = "invalid"]
    /\ book' = UploadedBook(Len(doc))
    /\ UNCHANGED <<ex, tts, mode, doc, pages, extract, jobs, inl, io, stale, old,
                   faults>>

\* no file, a name that does not end in .pdf, or more than 50 MB
StreamRejected ==
    /\ sse.pc = "validate"
    /\ sse' = [ErrorReturn(sse) EXCEPT !.reason = "invalid"]
    /\ StreamOnly

\* yield 'status' (File validated successfully)
StreamValidated ==
    /\ sse.pc = "validate"
    /\ sse' = Yield(sse, "status", 0, "validated")
    /\ StreamOnly

\* yield 'status' (Saving file...)
StreamSaving ==
    /\ sse.pc = "validated"
    /\ sse' = Yield(sse, "status", 0, "saving")
    /\ StreamOnly

\* the upload is written to a NamedTemporaryFile(delete=False);
\* yield 'status' (File uploaded successfully...)
StreamSaved ==
    /\ sse.pc = "saving"
    /\ sse' = Yield([sse EXCEPT !.tmp = TRUE], "status", 0, "saved")
    /\ StreamOnly

\* the pages are counted with pdfplumber; yield 'processing_started'
StreamCounted ==
    /\ sse.pc = "saved"
    /\ sse' = Yield(sse, "processing_started", 0, "ocr")
    /\ StreamOnly

\* PDFProcessorOCR.extract_pages_with_ocr, one turn of its loop: the page
\* is processed and progress_callback appends its page_progress event to
\* the list progress_events
StreamOcrPage ==
    /\ sse.pc = "ocr" /\ sse.ocr < Len(doc)
    /\ sse' = [sse EXCEPT !.ocr = @ + 1,
                          !.buffered = Append(@, Event("page_progress", sse.ocr + 1))]
    /\ StreamOnly

\* extract_pages_with_ocr returns: success after the last page, or
\* success = False when the conversion raised before the first page
StreamOcrReturns(ok) ==
    /\ sse.pc = "ocr"
    /\ sse.ocr = IF ok THEN Len(doc) ELSE 0
    /\ sse' = [sse EXCEPT !.success = ok, !.pc = "flush"]
    /\ StreamOnly

\* for event in progress_events: yield event
StreamFlush ==
    /\ sse.pc = "flush" /\ sse.buffered # << >>
    /\ sse' = [sse EXCEPT !.events = Append(@, Head(sse.buffered)),
                          !.buffered = Tail(@)]
    /\ StreamOnly

\* the temporary file is removed; the extraction had failed
StreamOcrFailed ==
    /\ sse.pc = "flush" /\ sse.buffered = << >> /\ ~sse.success
    /\ sse' = [ErrorReturn([sse EXCEPT !.tmp = FALSE]) EXCEPT !.reason = "extraction"]
    /\ StreamOnly

\* the temporary file is removed; yield 'status' (OCR completed...)
StreamOcrSucceeded ==
    /\ sse.pc = "flush" /\ sse.buffered = << >> /\ sse.success
    /\ sse' = Yield([sse EXCEPT !.tmp = FALSE], "status", 0, "create")
    /\ StreamOnly

\* the Book is created and its PDF saved; yield 'status' (Creating ...)
StreamBookCreated ==
    /\ sse.pc = "create"
    /\ book' = UploadedBook(Len(doc)) /\ stale' = FALSE
    /\ sse' = Yield(sse, "status", 0, "pages")
    /\ UNCHANGED <<ex, tts, mode, doc, pages, extract, jobs, inl, io, old, faults>>

\* one BookPage per extracted page; yield 'audio_generation_started'
StreamPagesCreated ==
    /\ sse.pc = "pages"
    /\ pages' = [p \in 1..Len(doc) |-> NewPage(doc[p])] /\ old' = FALSE
    /\ sse' = Yield(sse, "audio_generation_started", 0, "enqueue")
    /\ UNCHANGED <<ex, tts, mode, doc, book, extract, jobs, inl, io, stale, faults>>

\* generate_page_audio.delay(book.id, page_num) for every page number;
\* yield 'completed'; the generator ends
StreamCompleted ==
    /\ sse.pc = "enqueue"
    /\ jobs' = [p \in 1..Len(doc) |-> NewJob(p, "initial")]
    /\ sse' = Yield(sse, "completed", 0, "closed")
    /\ UNCHANGED <<ex, tts, mode, doc, book, pages, extract, inl, io, stale, old, faults>>

\* the statements that can raise, by the position of the generator
Raising == {"saving", "saved", "flush", "create", "pages", "enqueue"}

\* except Exception: an exception raised after k of the rows or tasks of
\* the current stage were created; yield 'error'
StreamException(k) ==
    /\ sse.pc \in Raising
    /\ sse.pc = "flush" => sse.buffered = << >>
    /\ k < (IF sse.pc \in {"pages", "enqueue"} THEN Len(doc)
            ELSE IF sse.pc = "create" THEN 2 ELSE 1)
    /\ book' = IF sse.pc = "create" /\ k = 1 THEN UploadedBook(Len(doc)) ELSE book
    /\ stale' = IF sse.pc = "create" /\ k = 1 THEN FALSE ELSE stale
    /\ pages' = IF sse.pc = "pages" THEN [p \in 1..k |-> NewPage(doc[p])] ELSE pages
    /\ old' = IF sse.pc = "pages" THEN FALSE ELSE old
    /\ jobs' = IF sse.pc = "enqueue" THEN [p \in 1..k |-> NewJob(p, "initial")]
               ELSE jobs
    /\ sse' = [ErrorReturn([sse EXCEPT !.tmp = sse.tmp \/ sse.pc = "saving"])
                EXCEPT !.reason = "exception"]
    /\ UNCHANGED <<ex, tts, mode, doc, extract, inl, io, faults>>

\* ------------------------------------------- BookUploadView._post_regular
\* a regular upload request: nothing is stored yet
InitRegular ==
    /\ mode = "regular"
    /\ doc \in UNION {[1..n -> Texts] : n \in 0..MaxPages}
    /\ book = NoBook
    /\ pages = << >>
    /\ extract = [pc |-> "none", retries |-> 0, eta |-> 0, lb |-> NoBook]
    /\ jobs = << >>
    /\ inl = [pc |-> "none", idx |-> 0, lpages |-> << >>, lb |-> NoBook,
              success_count |-> 0, failed_count |-> 0, skipped_count |-> 0,
              total_duration |-> 0, runs |-> 0, pre |-> NoPage,
              called |-> << >>]
    /\ io = NoIO
    /\ stale = FALSE
    /\ old = FALSE
    /\ faults = 0
    /\ sse = [NoStream EXCEPT !.pc = "request"]
    /\ ex = NoExtraction
    /\ tts = NoSynthesis

\* return APIResponse.<error>(...)
Respond(st, type, reason) ==
    [st EXCEPT !.events = Append(@, Event(type, 0)), !.pc = "closed",
               !.reason = reason]

\* AuthenticationFailed (401), or the serializer rejects the data: no
\* pdf_file, more than 50 MB, a name that does not end in .pdf
RegularRejected(reason) ==
    /\ sse.pc = "request"
    /\ sse' = Respond(sse, "error", reason)
    /\ StreamOnly

\* the upload is written to a temporary file and extract_pages_with_ocr
\* returns success False: error 400; finally removes the file
RegularExtractFailed ==
    /\ sse.pc = "request"
    /\ sse' = Respond(sse, "error", "extraction")
    /\ StreamOnly

\* the extraction succeeded: the Book is saved with total_pages and
\* 'processing', the BookPage rows are created, one task per page is
\* enqueued; 201; finally removes the file
RegularUploaded ==
    /\ sse.pc = "request"
    /\ book' = UploadedBook(Len(doc)) /\ stale' = FALSE
    /\ pages' = [p \in 1..Len(doc) |-> NewPage(doc[p])] /\ old' = FALSE
    /\ jobs' = [p \in 1..Len(doc) |-> NewJob(p, "initial")]
    /\ sse' = Respond([sse EXCEPT !.ocr = Len(doc), !.success = TRUE],
                      "completed", "none")
    /\ UNCHANGED <<ex, tts, mode, doc, extract, inl, io, faults>>

\* an exception after the Book was created and k of its pages, or all
\* pages and k of its tasks: it is not caught (500); finally removes the
\* file
RegularException(stage, k) ==
    /\ sse.pc = "request"
    /\ stage \in {"pages", "enqueue"} /\ k < Len(doc)
    /\ book' = UploadedBook(Len(doc)) /\ stale' = FALSE
    /\ pages' = [p \in 1..(IF stage = "pages" THEN k ELSE Len(doc)) |-> NewPage(doc[p])]
    /\ old' = FALSE
    /\ jobs' = [p \in 1..(IF stage = "enqueue" THEN k ELSE 0) |-> NewJob(p, "initial")]
    /\ sse' = Respond([sse EXCEPT !.ocr = Len(doc), !.success = TRUE],
                      "error", "exception")
    /\ UNCHANGED <<ex, tts, mode, doc, extract, inl, io, faults>>

\* the work done inside a request: the inline generator, the streamed and
\* the regular upload, without the workers
InitRequest == (Init /\ mode = "inline") \/ InitStream \/ InitRegular

NextRequest ==
    \/ InlineBegin
    \/ InlinePageStart
    \/ InlineSkip
    \/ \E d \in Durations : InlineSynth(d)
    \/ \E kind \in ErrorKinds, stage \in Stages : InlineFail(kind, stage)
    \/ InlineFinish
    \/ StreamOpen
    \/ StreamAuthFailed
    \/ StreamAuthenticated
    \/ StreamRejected
    \/ StreamValidated
    \/ StreamSaving
    \/ StreamSaved
    \/ StreamCounted
    \/ StreamOcrPage
    \/ \E ok \in BOOLEAN : StreamOcrReturns(ok)
    \/ StreamFlush
    \/ StreamOcrFailed
    \/ StreamOcrSucceeded
    \/ StreamBookCreated
    \/ StreamPagesCreated
    \/ StreamCompleted
    \/ \E k \in 0..MaxPages : StreamException(k)
    \/ \E reason \in {"auth", "invalid"} : RegularRejected(reason)
    \/ RegularExtractFailed
    \/ RegularUploaded
    \/ \E stage \in {"pages", "enqueue"}, k \in 0..MaxPages :
          RegularException(stage, k)

SpecRequest == InitRequest /\ [][NextRequest]_vars


\* ------------------------------------------------ text extraction calls
\* str.split(): the maximal runs of characters that are not whitespace
RECURSIVE Words(_)
Words(s) ==
    LET t == LStrip(s)
        k == IF \E i \in 1..Len(t) : t[i] \in Whitespace
             THEN CHOOSE i \in 1..Len(t) :
                     /\ t[i] \in Whitespace
                     /\ \A j \in 1..(i - 1) : t[j] \notin Whitespace
             ELSE Len(t) + 1
    IN IF t = << >> THEN << >>
       ELSE <<SubSeq(t, 1, k - 1)>> \o Words(SubSeq(t, k, Len(t)))

\* str.split('\n'): the pieces between line breaks, empty ones included
RECURSIVE Lines(_)
Lines(s) ==
    IF \E i \in 1..Len(s) : s[i] = "\n"
    THEN LET k == CHOOSE i \in 1..Len(s) :
                     s[i] = "\n" /\ \A j \in 1..(i - 1) : s[j] # "\n"
         IN <<SubSeq(s, 1, k - 1)>> \o Lines(SubSeq(s, k + 1, Len(s)))
    ELSE <<s>>

\* sep.join(parts)
RECURSIVE Join(_, _)
Join(sep, parts) ==
    IF parts = << >> THEN << >>
    ELSE IF Len(parts) = 1 THEN parts[1]
         ELSE parts[1] \o <<sep>> \o Join(sep, Tail(parts))

IsNonEmpty(s) == s # << >>

\* [line.strip() for line in lines if line.strip()]
CleanedLines(text) ==
    SelectSeq([i \in 1..Len(Lines(text)) |-> Strip(Lines(text)[i])], IsNonEmpty)

\* PDFProcessor._clean_text: ' '.join(text.split()), then strip()
PDFProcessor_clean_text(text) ==
    IF text = << >> THEN << >> ELSE Strip(Join(" ", Words(text)))

\* PDFProcessorOCR._clean_text: the stripped non-blank lines joined by '\n',
\* then ' '.join(text.split()), then strip()
PDFProcessorOCR_clean_text(text) ==
    IF text = << >> THEN << >>
    ELSE Strip(Join(" ", Words(Join("\n", CleanedLines(text)))))

\* PDFProcessorGemini._clean_text: the stripped non-blank lines joined by
\* '\n', then every line rebuilt as ' '.join(line.split()), then strip()
PDFProcessorGemini_clean_text(text) ==
    IF text = << >> THEN << >>
    ELSE LET lines == Lines(Join("\n", CleanedLines(text)))
         IN Strip(Join("\n", [i \in 1..Len(lines) |-> Join(" ", Words(lines[i]))]))

\* extract_pages, extract_pages_with_ocr with use_ocr True and False,
\* extract_pages_with_gemini
Strategies == {"text", "ocr", "ocr_text", "gemini"}

\* the _clean_text of the class of the strategy
CleanText(strategy, text) ==
    IF strategy = "text" THEN PDFProcessor_clean_text(text)
    ELSE IF strategy = "gemini" THEN PDFProcessorGemini_clean_text(text)
    ELSE PDFProcessorOCR_clean_text(text)

\* the raw text of a page, as the PDF library, Tesseract or Gemini gives it
Sample == <<"a", " ", " ", " ", "b", "\n", "\n", "c">>
RawTexts == { << >>, <<"a">>, <<" ", "\n">>, <<" ", "a", "\n", "b", " ">>, Sample }

\* every variable of the upload and synthesis pipeline at rest
NoPipeline ==
    /\ mode = "none"
    /\ doc = << >>
    /\ book = NoBook
    /\ pages = << >>
    /\ extract = [pc |-> "none", retries |-> 0, eta |-> 0, lb |-> NoBook]
    /\ jobs = << >>
    /\ inl = [pc |-> "none", idx |-> 0, lpages |-> << >>, lb |-> NoBook,
              success_count |-> 0, failed_count |-> 0, skipped_count |-> 0,
              total_duration |-> 0, runs |-> 0, pre |-> NoPage,
              called |-> << >>]
    /\ io = NoIO
    /\ stale = FALSE
    /\ old = FALSE
    /\ faults = 0
    /\ sse = NoStream

\* one call of an extraction strategy on a PDF whose pages have the raw
\* texts raw; pages_data = [], nothing is returned yet
InitExtract ==
    /\ NoPipeline
    /\ tts = NoSynthesis
    /\ \E strategy \in Strategies,
          raw \in UNION {[1..n -> RawTexts] : n \in 0..MaxPages} :
          ex = [pc |-> "start", strategy |-> strategy, raw |-> raw, i |-> 0,
                pages_data |-> << >>, failed |-> {}, called |-> << >>,
                success |-> FALSE, total_pages |-> 0, returned |-> << >>]

ExtractOnly == UNCHANGED <<mode, doc, book, pages, extract, jobs, inl, io,
                           stale, old, faults, sse, tts>>

\* {'page_number': page_num, 'text': text}
PageData(page_num, text) == [page_number |-> page_num, text |-> text]

\* progress_callback(page_num, total_pages, ...); extract_pages has no
\* callback, and the use_ocr=False branch does not call it after an error
Callback(e, onError) ==
    IF e.strategy = "text" \/ (onError /\ e.strategy = "ocr_text")
    THEN e.called ELSE Append(e.called, e.i)

\* the PDF is opened and its pages are counted (and converted to images)
ExtractOpened ==
    /\ ex.pc = "start"
    /\ ex' = [ex EXCEPT !.pc = "loop", !.i = 1, !.total_pages = Len(ex.raw)]
    /\ ExtractOnly

\* opening, counting or converting raised: the outer handler returns
\* success False with no pages
ExtractOpenFailed ==
    /\ ex.pc = "start"
    /\ ex' = [ex EXCEPT !.pc = "returned", !.success = FALSE, !.total_pages = 0,
                        !.returned = << >>]
    /\ ExtractOnly

\* a turn of the loop in which the page is extracted: the cleaned text is
\* appended
ExtractPage ==
    /\ ex.pc = "loop" /\ ex.i <= Len(ex.raw)
    /\ ex' = [ex EXCEPT
                !.pages_data = Append(@, PageData(ex.i, CleanText(ex.strategy, ex.raw[ex.i]))),
                !.called = Callback(ex, FALSE),
                !.i = @ + 1]
    /\ ExtractOnly

\* the ways the extraction of one page raises: any error; for Gemini a
\* quota error (429) whose second attempt after 60 s succeeds or fails
PageErrors == {"error", "quota_then_ok", "quota_then_error"}

\* a loop without the inner try/except: the error of a page ends the call
ExtractPageError_Raises(kind) ==
    /\ ex.pc = "loop" /\ ex.i <= Len(ex.raw)
    /\ kind # "error" => ex.strategy = "gemini"
    /\ ex' = [ex EXCEPT !.pc = "returned", !.success = FALSE, !.total_pages = 0,
                        !.failed = @ \cup {ex.i}, !.returned = << >>]
    /\ ExtractOnly

\* a turn of the loop in which the extraction of the page raised: an empty
\* text is appended; after a Gemini quota error whose second attempt
\* succeeds, the text of that attempt is appended as it is
ExtractPageError(kind) ==
    /\ ex.pc = "loop" /\ ex.i <= Len(ex.raw)
    /\ kind # "error" => ex.strategy = "gemini"
    /\ ex' = [ex EXCEPT
                !.pages_data = Append(@, PageData(ex.i,
                                  IF kind = "quota_then_ok" THEN ex.raw[ex.i]
                                  ELSE << >>)),
                !.failed = IF kind = "quota_then_ok" THEN @ ELSE @ \cup {ex.i},
                !.called = Callback(ex, TRUE),
                !.i = @ + 1]
    /\ ExtractOnly

\* after the last page: success True with the page count and pages_data
ExtractReturned ==
    /\ ex.pc = "loop" /\ ex.i > Len(ex.raw)
    /\ ex' = [ex EXCEPT !.pc = "returned", !.success = TRUE,
                        !.returned = ex.pages_data]
    /\ ExtractOnly

NextExtract ==
    \/ ExtractOpened
    \/ ExtractOpenFailed
    \/ ExtractPage
    \/ \E kind \in PageErrors : ExtractPageError(kind)
    \/ ExtractReturned

SpecExtract == InitExtract /\ [][NextExtract]_vars

\* ------------------------------------------ the caller's progress_callback
\* What the progress_callback of the caller does: none is supplied, it
\* returns, it raises on every call, or it raises on its first call only.
Callbacks == {"none", "ok", "raises", "raises_once"}

\* if progress_callback:
Supplied(e) == e.callback # "none"

\* the next call of the callback raises
RaisesNow(e) ==
    e.callback = "raises" \/ (e.callback = "raises_once" /\ ~e.raised)

\* one call of extract_pages_with_ocr or extract_pages_with_gemini with the
\* keyword progress_callback
InitCallback ==
    /\ NoPipeline
    /\ tts = NoSynthesis
    /\ \E strategy \in Strategies \ {"text"}, callback \in Callbacks,
          raw \in UNION {[1..n -> RawTexts] : n \in 0..MaxPages} :
          ex = [pc |-> "start", strategy |-> strategy, raw |-> raw, i |-> 0,
                pages_data |-> << >>, failed |-> {}, called |-> << >>,
                success |-> FALSE, total_pages |-> 0, returned |-> << >>,
                callback |-> callback, raised |-> FALSE]

\* the outer handler: success False, total_pages 0, no pages
OuterHandler(e) ==
    [e EXCEPT !.pc = "returned", !.success = FALSE, !.total_pages = 0,
              !.returned = << >>]

\* the handler of a page calls the callback (not in the use_ocr=False loop)
HandlerCalls(e) == Supplied(e) /\ e.strategy # "ocr_text"

\* a turn of the loop: the page is extracted and appended, the callback,
\* if there is one, is called and returns
CallbackPage ==
    /\ ex.pc = "loop" /\ ex.i <= Len(ex.raw)
    /\ ~(Supplied(ex) /\ RaisesNow(ex))
    /\ ex' = [ex EXCEPT
                !.pages_data = Append(@, PageData(ex.i, CleanText(ex.strategy, ex.raw[ex.i]))),
                !.called = IF Supplied(ex) THEN Append(@, ex.i) ELSE @,
                !.i = @ + 1]
    /\ ExtractOnly

\* a turn of the loop: the extraction of the page raised, the handler
\* appended the empty text (or the text of the Gemini quota retry) and its
\* call of the callback, if it makes one, returns
CallbackPageError(kind) ==
    /\ ex.pc = "loop" /\ ex.i <= Len(ex.raw)
    /\ kind # "error" => ex.strategy = "gemini"
    /\ ~(HandlerCalls(ex) /\ RaisesNow(ex))
    /\ ex' = [ex EXCEPT
                !.pages_data = Append(@, PageData(ex.i,
                                  IF kind = "quota_then_ok" THEN ex.raw[ex.i]
                                  ELSE << >>)),
                !.failed = IF kind = "quota_then_ok" THEN @ ELSE @ \cup {ex.i},
                !.called = IF HandlerCalls(ex) THEN Append(@, ex.i) ELSE @,
                !.i = @ + 1]
    /\ ExtractOnly

\* a turn of the loop: the page is extracted and appended, then the
\* callback raises inside the try of the page.  The handler of the page
\* appends a second entry with the empty text for the same page number; in
\* the OCR and Gemini loops it calls the callback again, outside any inner
\* try: when that call raises too, the outer handler ends the call.
CallbackRaised ==
    /\ ex.pc = "loop" /\ ex.i <= Len(ex.raw)
    /\ Supplied(ex) /\ RaisesNow(ex)
    /\ LET twice == ex.pages_data
                       \o <<PageData(ex.i, CleanText(ex.strategy, ex.raw[ex.i])),
                            PageData(ex.i, << >>)>>
       IN ex' = IF HandlerCalls(ex) /\ ex.callback = "raises"
                THEN [OuterHandler(ex) EXCEPT !.raised = TRUE]
                ELSE [ex EXCEPT !.pages_data = twice,
                                !.called = IF HandlerCalls(ex) THEN Append(@, ex.i) ELSE @,
                                !.raised = TRUE,
                                !.i = @ + 1]
    /\ ExtractOnly

\* a turn of the loop: the extraction of the page raised, and the callback
\* called by the handler of the page raises: the outer handler ends the call
CallbackRaisedInHandler(kind) ==
    /\ ex.pc = "loop" /\ ex.i <= Len(ex.raw)
    /\ kind # "error" => ex.strategy = "gemini"
    /\ HandlerCalls(ex) /\ RaisesNow(ex)
    /\ ex' = [OuterHandler(ex) EXCEPT !.raised = TRUE,
                                      !.failed = IF kind = "quota_then_ok" THEN @
                                                 ELSE @ \cup {ex.i}]
    /\ ExtractOnly

NextCallback ==
    \/ ExtractOpened
    \/ ExtractOpenFailed
    \/ CallbackPage
    \/ \E kind \in PageErrors : CallbackPageError(kind)
    \/ CallbackRaised
    \/ \E kind \in PageErrors : CallbackRaisedInHandler(kind)
    \/ ExtractReturned

SpecCallback == InitCallback /\ [][NextCallback]_vars

\* ------------------------------------- the requests of the Gemini strategy
\* retry_delay: the default, or the delay named in the error message
\* ('retry in 30s') plus 2
RetryDelays == {DefaultDelay, 32}

\* One call of extract_pages_with_gemini, request by request, after the PDF
\* was opened and converted.  For the page in work: phase is "first" in the
\* try of the page and "cooldown" in its quota handler, attempt the loop
\* variable of _extract_with_retry, requests the calls of
\* model.generate_content, waits the sleeps after an error, quota whether an
\* error was a quota signal.  log keeps these per page.
InitGemini ==
    /\ NoPipeline
    /\ tts = NoSynthesis
    /\ \E raw \in UNION {[1..n -> RawTexts] : n \in 1..MaxPages} :
          ex = [pc |-> "loop", strategy |-> "gemini", raw |-> raw, i |-> 1,
                pages_data |-> << >>, phase |-> "first", attempt |-> 0,
                requests |-> 0, waits |-> << >>, quota |-> FALSE,
                log |-> << >>, success |-> FALSE, total_pages |-> Len(raw),
                returned |-> << >>]

\* the page gets its entry and the loop goes to the next page
FinishPage(e, text) ==
    [e EXCEPT !.pages_data = Append(@, PageData(e.i, text)),
              !.log = Append(@, [requests |-> e.requests + 1, waits |-> e.waits,
                                 quota |-> e.quota, text |-> text]),
              !.i = @ + 1, !.phase = "first", !.attempt = 0,
              !.requests = 0, !.waits = << >>, !.quota = FALSE]

\* model.generate_content returned: in the try of the page the text is
\* cleaned, in the quota handler it is appended as it is
GeminiResponse ==
    /\ ex.pc = "loop" /\ ex.i <= Len(ex.raw)
    /\ ex' = FinishPage(ex, IF ex.phase = "first"
                            THEN PDFProcessorGemini_clean_text(ex.raw[ex.i])
                            ELSE ex.raw[ex.i])
    /\ ExtractOnly

\* max_retries of the running _extract_with_retry
Attempts(e) == IF e.phase = "first" THEN GeminiAttempts ELSE QuotaAttempts

\* model.generate_content raised ResourceExhausted (429): before the last
\* attempt _extract_with_retry sleeps retry_delay and tries again; after it
\* the error is raised.  The handler of the page finds '429' in it, sleeps
\* 60 s and calls _extract_with_retry with max_retries=1; when that raises,
\* the empty text is appended.
GeminiResourceExhausted(delay) ==
    /\ ex.pc = "loop" /\ ex.i <= Len(ex.raw)
    /\ ex' = IF ex.attempt < Attempts(ex) - 1
             THEN [ex EXCEPT !.attempt = @ + 1, !.requests = @ + 1,
                             !.quota = TRUE, !.waits = Append(@, delay)]
             ELSE IF ex.phase = "first"
             THEN [ex EXCEPT !.phase = "cooldown", !.attempt = 0,
                             !.requests = @ + 1, !.quota = TRUE,
                             !.waits = Append(@, QuotaCooldown)]
             ELSE FinishPage([ex EXCEPT !.quota = TRUE], << >>)
    /\ ExtractOnly

\* model.generate_content raised another exception, which
\* _extract_with_retry raises at once; isQuota: its message contains '429'
\* or 'quota'
GeminiOtherError(isQuota) ==
    /\ ex.pc = "loop" /\ ex.i <= Len(ex.raw)
    /\ ex' = IF ex.phase = "first" /\ isQuota
             THEN [ex EXCEPT !.phase = "cooldown", !.attempt = 0,
                             !.requests = @ + 1, !.quota = TRUE,
                             !.waits = Append(@, QuotaCooldown)]
             ELSE FinishPage([ex EXCEPT !.quota = @ \/ isQuota], << >>)
    /\ ExtractOnly

\* after the last page: success True with the page count and pages_data
GeminiReturned ==
    /\ ex.pc = "loop" /\ ex.i > Len(ex.raw)
    /\ ex' = [ex EXCEPT !.pc = "returned", !.success = TRUE,
                        !.returned = ex.pages_data]
    /\ ExtractOnly

NextGemini ==
    \/ GeminiResponse
    \/ \E delay \in RetryDelays : GeminiResourceExhausted(delay)
    \/ \E isQuota \in BOOLEAN : GeminiOtherError(isQuota)
    \/ GeminiReturned

SpecGemini == InitGemini /\ [][NextGemini]_vars

\* ---------------------------------------------------------- TTSGenerator
\* the languages of TTSGenerator.VOICE_OPTIONS
Supported == {"hindi", "english", "urdu", "bengali", "tamil", "telugu",
              "marathi", "gujarati"}

VoicePrefix(language) ==
    CASE language = "hindi" -> "hi-IN"
      [] language = "english" -> "en-IN"
      [] language = "urdu" -> "ur-PK"
      [] language = "bengali" -> "bn-IN"
      [] language = "tamil" -> "ta-IN"
      [] language = "telugu" -> "te-IN"
      [] language = "marathi" -> "mr-IN"
      [] language = "gujarati" -> "gu-IN"

VoiceName(language, gender) ==
    CASE language = "hindi" -> IF gender = "female" THEN "Swara" ELSE "Madhur"
      [] language = "english" -> IF gender = "female" THEN "Neerja" ELSE "Prabhat"
      [] language = "urdu" -> IF gender = "female" THEN "Uzma" ELSE "Asad"
      [] language = "bengali" -> IF gender = "female" THEN "Tanishaa" ELSE "Bashkar"
      [] language = "tamil" -> IF gender = "female" THEN "Pallavi" ELSE "Valluvar"
      [] language = "telugu" -> IF gender = "female" THEN "Shruti" ELSE "Mohan"
      [] language = "marathi" -> IF gender = "female" THEN "Aarohi" ELSE "Manohar"
      [] language = "gujarati" -> IF gender = "female" THEN "Dhwani" ELSE "Niranjan"

\* TTSGenerator.VOICE_OPTIONS; the voice id hi-IN-SwaraNeural is written
\* <<"hi-IN", "Swara">>
VOICE_OPTIONS ==
    [language \in Supported |->
        [gender \in {"female", "male"} |->
            <<VoicePrefix(language), VoiceName(language, gender)>>]]

\* the arguments a caller may pass
Languages == Supported \cup {"Hindi", "ENGLISH", "french", ""}
Genders == {"female", "male", "Male", "child"}

\* str.lower()
Lower(str) ==
    CASE str = "Hindi" -> "hindi"
      [] str = "ENGLISH" -> "english"
      [] str = "Male" -> "male"
      [] OTHER -> str

\* a lookup without the fallback to the female voice
get_voice_MaleDefault(language, gender) ==
    IF Lower(language) \in Supported
    THEN IF Lower(gender) = "female"
         THEN VOICE_OPTIONS[Lower(language)]["female"]
         ELSE VOICE_OPTIONS[Lower(language)]["male"]
    ELSE VOICE_OPTIONS["hindi"]["male"]

\* TTSGenerator.get_voice
get_voice(language, gender) ==
    IF Lower(language) \in Supported
    THEN IF Lower(gender) \in DOMAIN VOICE_OPTIONS[Lower(language)]
         THEN VOICE_OPTIONS[Lower(language)][Lower(gender)]
         ELSE VOICE_OPTIONS[Lower(language)]["female"]
    ELSE VOICE_OPTIONS["hindi"]["female"]

\* the texts passed to the engine
SpokenTexts == { << >>, <<" ">>, <<" ", "\n">>, <<"a">> }

\* the result dict of generate_audio_async
TtsResult(success, duration, error) ==
    [success |-> success, duration |-> duration, error |-> error]

\* one call of get_voice or of generate_audio; nothing is returned yet
InitSynthesis ==
    /\ NoPipeline
    /\ ex = NoExtraction
    /\ \E call \in {"get_voice", "generate_audio"}, text \in SpokenTexts,
          language \in Languages, gender \in Genders :
          tts = [pc |-> "start", call |-> call, text |-> text,
                 language |-> language, gender |-> gender,
                 voice |-> << >>, service |-> FALSE,
                 result |-> TtsResult(FALSE, 0, "pending")]

SynthesisOnly == UNCHANGED <<mode, doc, book, pages, extract, jobs, inl, io,
                             stale, old, faults, sse, ex>>

\* a direct call of get_voice
VoiceLookup ==
    /\ tts.pc = "start" /\ tts.call = "get_voice"
    /\ tts' = [tts EXCEPT !.pc = "returned",
                          !.voice = get_voice(tts.language, tts.gender)]
    /\ SynthesisOnly

\* generate_audio_async: not text or text.strip() == ""
TtsEmptyText ==
    /\ tts.pc = "start" /\ tts.call = "generate_audio"
    /\ NoText(tts.text)
    /\ tts' = [tts EXCEPT !.pc = "returned",
                          !.result = TtsResult(FALSE, 0, "No text content to convert")]
    /\ SynthesisOnly

\* the voice is looked up and edge_tts.Communicate is created
TtsVoiceChosen ==
    /\ tts.pc = "start" /\ tts.call = "generate_audio"
    /\ ~NoText(tts.text)
    /\ tts' = [tts EXCEPT !.pc = "communicate",
                          !.voice = get_voice(tts.language, tts.gender)]
    /\ SynthesisOnly

\* communicate.save succeeded; _get_audio_duration gives the seconds, or 0
\* when the duration cannot be read
TtsSaved(d) ==
    /\ tts.pc = "communicate"
    /\ tts' = [tts EXCEPT !.pc = "returned", !.service = TRUE,
                          !.result = TtsResult(TRUE, d, "none")]
    /\ SynthesisOnly

\* communicate.save raised: the handler returns success False
TtsRaised ==
    /\ tts.pc = "communicate"
    /\ tts' = [tts EXCEPT !.pc = "returned", !.service = TRUE,
                          !.result = TtsResult(FALSE, 0, "exception")]
    /\ SynthesisOnly

NextSynthesis ==
    \/ VoiceLookup
    \/ TtsEmptyText
    \/ TtsVoiceChosen
    \/ \E d \in 0..MaxDuration : TtsSaved(d)
    \/ TtsRaised

SpecSynthesis == InitSynthesis /\ [][NextSynthesis]_vars

\* -------------------------------- process_book_pdf, statement by statement
\* the Book row of a fresh upload and the process_book_pdf message in the
\* queue; i is the loop variable of the two loops
InitPersist ==
    /\ mode = "persist"
    /\ doc \in UNION {[1..n -> Texts] : n \in 0..MaxPages}
    /\ book = [status |-> "uploaded", progress |-> 0, total_pages |-> 0,
               total_duration |-> 0, error |-> "none"]
    /\ pages = << >>
    /\ extract = [pc |-> "queued", retries |-> 0, eta |-> 0, lb |-> NoBook,
                  i |-> 0, deliveries |-> 1]
    /\ jobs = << >>
    /\ inl = [pc |-> "none", idx |-> 0, lpages |-> << >>, lb |-> NoBook,
              success_count |-> 0, failed_count |-> 0, skipped_count |-> 0,
              total_duration |-> 0, runs |-> 0, pre |-> NoPage,
              called |-> << >>]
    /\ io = NoIO
    /\ stale = FALSE
    /\ old = FALSE
    /\ faults = 0
    /\ sse = NoStream
    /\ ex = NoExtraction
    /\ tts = NoSynthesis

PersistOnly == UNCHANGED <<mode, doc, inl, stale, old, sse, ex, tts>>

\* except Exception: the Book is re-read, marked failed with str(e) and
\* saved; self.retry(exc=e, countdown=60) re-delivers the task unless the
\* retries are exhausted.  An IntegrityError is no fault of a service.
PdfHandler(kind) ==
    /\ book' = [book EXCEPT !.status = "failed", !.error = kind]
    /\ extract' = IF RetriesExhausted(extract.retries)
                  THEN [extract EXCEPT !.pc = "dead", !.lb = NoBook, !.i = 0]
                  ELSE [extract EXCEPT !.pc = "queued", !.lb = NoBook, !.i = 0,
                                       !.retries = extract.retries + 1,
                                       !.eta = ExtractCountdown]
    /\ io' = [NoIO EXCEPT !.error = kind]
    /\ faults' = IF kind = "integrity" THEN faults ELSE faults + 1

\* book = Book.objects.get(id); book.processing_status = 'processing'; save
PdfStart ==
    /\ extract.pc = "queued" /\ extract.eta = 0
    /\ LET lb == [book EXCEPT !.status = "processing"] IN
         /\ book' = lb
         /\ extract' = [extract EXCEPT !.pc = "extract", !.lb = lb]
    /\ io' = NoIO
    /\ UNCHANGED <<pages, jobs, faults>>
    /\ PersistOnly

\* the download and PDFProcessor.extract_pages succeeded:
\* book.total_pages = result['total_pages']; book.save()
PdfExtracted ==
    /\ extract.pc = "extract"
    /\ LET lb == [extract.lb EXCEPT !.total_pages = Len(doc)] IN
         /\ book' = lb
         /\ extract' = [extract EXCEPT !.pc = IF Len(doc) = 0 THEN "done" ELSE "create",
                                       !.i = 1, !.lb = lb]
    /\ io' = NoIO
    /\ UNCHANGED <<pages, jobs, faults>>
    /\ PersistOnly

\* a handler that marks the Document failed without the error detail
PdfExtractFailed_NoDetail ==
    /\ faults < MaxFaults
    /\ extract.pc = "extract"
    /\ book' = [book EXCEPT !.status = "failed"]
    /\ extract' = IF RetriesExhausted(extract.retries)
                  THEN [extract EXCEPT !.pc = "dead", !.lb = NoBook, !.i = 0]
                  ELSE [extract EXCEPT !.pc = "queued", !.lb = NoBook, !.i = 0,
                                       !.retries = extract.retries + 1,
                                       !.eta = ExtractCountdown]
    /\ io' = [NoIO EXCEPT !.error = "extraction"]
    /\ faults' = faults + 1
    /\ UNCHANGED <<pages, jobs>>
    /\ PersistOnly

\* the download raised, or the extraction returned success False and
\* Exception(result['error']) is raised
PdfExtractFailed ==
    /\ faults < MaxFaults
    /\ extract.pc = "extract"
    /\ PdfHandler("extraction")
    /\ UNCHANGED <<pages, jobs>>
    /\ PersistOnly

\* BookPage.objects.create(book, page_number, text_content, 'pending') for
\* a page number the Document does not have yet
PdfCreatePage ==
    /\ extract.pc = "create" /\ extract.i \notin DOMAIN pages
    /\ pages' = Append(pages, NewPage(doc[extract.i]))
    /\ extract' = IF extract.i = Len(doc)
                  THEN [extract EXCEPT !.pc = "enqueue", !.i = 1]
                  ELSE [extract EXCEPT !.i = @ + 1]
    /\ io' = NoIO
    /\ UNCHANGED <<book, jobs, faults>>
    /\ PersistOnly

\* BookPage.objects.create raised: IntegrityError when the Document has a
\* page with this number already (unique_together book, page_number), or a
\* database error
CreateErrors == {"integrity", "database"}
PdfCreateFailed(kind) ==
    /\ extract.pc = "create"
    /\ IF kind = "integrity" THEN extract.i \in DOMAIN pages
       ELSE extract.i \notin DOMAIN pages /\ faults < MaxFaults
    /\ PdfHandler(kind)
    /\ UNCHANGED <<pages, jobs>>
    /\ PersistOnly

\* generate_page_audio.delay(book_id, page_num)
PdfEnqueue ==
    /\ extract.pc = "enqueue"
    /\ jobs' = Append(jobs, NewJob(extract.i, "initial"))
    /\ extract' = IF extract.i = Len(doc)
                  THEN [extract EXCEPT !.pc = "done", !.lb = NoBook, !.i = 0]
                  ELSE [extract EXCEPT !.i = @ + 1]
    /\ io' = NoIO
    /\ UNCHANGED <<book, pages, faults>>
    /\ PersistOnly

\* generate_page_audio.delay raised (the broker cannot be reached)
PdfEnqueueFailed ==
    /\ faults < MaxFaults
    /\ extract.pc = "enqueue"
    /\ PdfHandler("broker")
    /\ UNCHANGED <<pages, jobs>>
    /\ PersistOnly

\* the countdown of the re-delivery is over
PdfCountdown ==
    /\ extract.pc = "queued" /\ extract.eta > 0
    /\ extract' = [extract EXCEPT !.eta = 0]
    /\ io' = NoIO
    /\ UNCHANGED <<book, pages, jobs, faults>>
    /\ PersistOnly

\* the queue delivers the message of a task that has returned once more
PdfRedelivered ==
    /\ extract.pc = "done" /\ extract.deliveries < MaxDeliveries
    /\ extract' = [extract EXCEPT !.pc = "queued", !.retries = 0, !.eta = 0,
                                  !.deliveries = @ + 1]
    /\ io' = NoIO
    /\ UNCHANGED <<book, pages, jobs, faults>>
    /\ PersistOnly

NextPersist ==
    \/ PdfStart
    \/ PdfExtracted
    \/ PdfExtractFailed
    \/ PdfCreatePage
    \/ \E kind \in CreateErrors : PdfCreateFailed(kind)
    \/ PdfEnqueue
    \/ PdfEnqueueFailed
    \/ PdfCountdown
    \/ PdfRedelivered

SpecPersist == InitPersist /\ [][NextPersist]_vars

\* =================================================================== claims
Statuses == {"pending", "processing", "completed", "failed"}

\* no task is waiting, queued or running, and an inline run has finished
AllEnded ==
    /\ extract.pc \in {"none", "done", "dead"}
    /\ \A j \in DOMAIN jobs : jobs[j].pc \in {"done", "dead"}
    /\ inl.pc \in {"none", "idle"}
    /\ mode = "inline" => inl.runs > 0

AllCompleted == \A p \in DOMAIN pages : pages[p].status = "completed"

\* floor(100 * c / t), written without the model's Percent
Floor100(c, t) == CHOOSE q \in 0..100 : q * t <= 100 * c /\ 100 * c < (q + 1) * t

\* every character of the text is whitespace (the empty text included)
Blank(text) == \A i \in 1..Len(text) : text[i] = " "

\* C1: whenever the pages of a document are persisted (total_pages > 0), in
\* queued and in inline mode, processing_progress equals
\* floor(100 * completed pages / total_pages), skipped pages counting as
\* completed.
C1_ProgressIsDerived ==
    (Len(pages) > 0 /\ book.total_pages > 0)
        => book.progress = Floor100(CompletedCount(pages), book.total_pages)

\* C2: a document with N > 0 pages of which some failed permanently (their
\* tasks have exhausted the retries) and all others are completed ends, in
\* queued as in inline mode, with status completed and
\* processing_progress = floor(100 * (N - failed) / N).
C2_CompletedDespiteFailedPages ==
    ( /\ Len(pages) > 0
      /\ AllEnded
      /\ \A p \in DOMAIN pages : pages[p].status \in {"completed", "failed"}
      /\ \E p \in DOMAIN pages : pages[p].status = "failed" )
        => /\ book.status = "completed"
           /\ book.progress = Floor100(CompletedCount(pages), Len(pages))

\* C3: when two or more page tasks of a document have synthesized their
\* pages, in whatever interleaving, and all of them have finished, the
\* aggregator has lost no update: the Document is completed with progress
\* 100 and total duration equal to the sum of the page durations.
C3_NoLostUpdate ==
    ( /\ mode = "queued"
      /\ Len(pages) >= 2
      /\ AllEnded
      /\ \A p \in DOMAIN pages :
            pages[p].status = "completed" /\ pages[p].audio # NoAudio )
        => /\ book.status = "completed"
           /\ book.progress = 100
           /\ book.total_duration = SumDuration(pages, Len(pages))

\* C4: in queued mode, once every page of a document (total_pages > 0) is
\* completed, by synthesis or by empty-text skip, and the last page task
\* has finished, the Document is completed and its total duration is the
\* sum of the page durations.
C4_LastPageCompletesDocument ==
    ( /\ mode = "queued"
      /\ Len(pages) > 0
      /\ AllEnded
      /\ AllCompleted )
        => /\ book.status = "completed"
           /\ book.total_duration = SumDuration(pages, Len(pages))

\* a task of page p failed with a rate-limit error in this step and is
\* re-delivered
RateLimitRetry(p) ==
    \E j \in DOMAIN jobs :
        /\ jobs[j].page = p /\ jobs[j].pc = "run" /\ jobs'[j].pc = "queued"
        /\ io'.error = "rate"

\* the retry sweep enqueued tasks in this step
SweepStep == Len(jobs') > Len(jobs) /\ Len(jobs) > 0

\* C5: every change of a Page's status is pending -> processing,
\* processing -> completed, processing -> failed, processing -> pending
\* (only on a rate-limit failure with retries remaining) or
\* failed -> pending (only by the retry sweep).
C5_PageTransitions ==
    [][\A p \in DOMAIN pages \cap DOMAIN pages' :
         pages'[p].status # pages[p].status =>
            \/ pages[p].status = "pending" /\ pages'[p].status = "processing"
            \/ pages[p].status = "processing" /\ pages'[p].status = "completed"
            \/ pages[p].status = "processing" /\ pages'[p].status = "failed"
            \/ /\ pages[p].status = "processing" /\ pages'[p].status = "pending"
               /\ RateLimitRetry(p)
            \/ /\ pages[p].status = "failed" /\ pages'[p].status = "pending"
               /\ SweepStep]_vars

\* C6: every change of a Document's status is uploaded -> processing,
\* processing -> completed or processing -> failed; a completed or failed
\* Document never changes status again.
C6_DocumentTransitions ==
    [][book'.status # book.status =>
          \/ book.status = "uploaded" /\ book'.status = "processing"
          \/ book.status = "processing" /\ book'.status = "completed"
          \/ book.status = "processing" /\ book'.status = "failed"]_vars

\* an empty-text page was completed by the skip in the latest step
C7_Witness ==
    /\ io.returned \in {"No text content", "No text content (skipped)"}
    /\ pages[io.page].text = <<" ">>
    /\ pages[io.page].status = "completed"

\* C7: a page whose text is empty or whitespace-only ends completed with
\* audio_duration = 0 and no audio asset, and neither the speech synthesis
\* call nor an asset upload is ever made for it, in queued and in inline
\* mode.
C7_EmptyPageSkipped ==
    /\ (io.tts \/ io.upload) => ~Blank(pages[io.page].text)
    /\ \A p \in DOMAIN pages :
          Blank(pages[p].text) =>
             /\ pages[p].duration = 0 /\ pages[p].audio = NoAudio
             /\ pages[p].status \in {"pending", "processing", "completed"}
             /\ (\E j \in DOMAIN jobs : jobs[j].page = p /\ jobs[j].pc \in {"done", "dead"})
                   => pages[p].status = "completed"
             /\ \A j \in DOMAIN jobs :
                   jobs[j].page = p => jobs[j].retries = 0 /\ jobs[j].pc # "dead"
             /\ (mode = "inline" /\ inl.runs > 0
                   /\ (inl.pc \in {"idle", "finish"} \/ inl.idx > p))
                   => pages[p].status = "completed"

Backoff == <<60, 180, 540>>

C10_ExhaustedPageStaysFailed ==
    [][\A p \in DOMAIN pages \cap DOMAIN pages' :
         ( /\ pages[p].status = "failed"
           /\ \E j \in DOMAIN jobs : jobs[j].page = p /\ jobs[j].pc = "dead" )
            => /\ pages'[p].status = "failed"
               /\ ~(io'.tts /\ io'.page = p)]_vars

\* another task attempts a page after a task of that page has exhausted its
\* retries
C10_Witness ==
    \E j, k \in DOMAIN jobs :
        /\ jobs[j].pc = "dead" /\ jobs[j].retries = 3
        /\ k # j /\ jobs[k].page = jobs[j].page /\ jobs[k].pc = "run"
        /\ pages[jobs[j].page].status = "processing"

\* C10 as amended: the task whose 4th attempt fails marks the page failed
\* and is never re-delivered; the page leaves failed only by a step of
\* another task of that page (its start, or the completion of its attempt).
C10_ExhaustedTaskNotRedelivered ==
    [][\A j \in DOMAIN jobs \cap DOMAIN jobs' :
         LET p == jobs[j].page
         IN /\ ( /\ jobs[j].pc = "run" /\ jobs[j].retries >= 3
                 /\ jobs'[j].pc # "run" /\ io'.error # "none" )
                  => jobs'[j].pc = "dead" /\ pages'[p].status = "failed"
            /\ jobs[j].pc = "dead" => jobs'[j] = jobs[j]
            /\ ( /\ jobs[j].pc = "dead"
                 /\ pages[p].status = "failed" /\ pages'[p].status # "failed" )
                  => \E k \in DOMAIN jobs \ {j} :
                        /\ jobs[k].page = p
                        /\ jobs[k].pc \in {"queued", "run"}
                        /\ jobs'[k].pc # jobs[k].pc]_vars

\* the step forces the Document to failed with the timeout message
SweepForcesFailed ==
    /\ book'.status = "failed" /\ book'.error = "Processing timeout"
    /\ book # book'

\* the step that led to the current state saved a page row with a new status
PageJustChanged ==
    \/ io.tts
    \/ io.error # "none"
    \/ io.returned \in {"No text content", "No text content (skipped)"}

\* C11: the staleness sweep forces to failed, with a timeout message, exactly
\* the Documents that are processing and have had no state change, of the
\* Document or of any of its pages, in the last 2 hours; a Document in
\* another status or with a page transition in the last 2 hours is left
\* unchanged.
C11_SweepOnlyWhenQuiet ==
    [][SweepForcesFailed
          => /\ book.status = "processing" /\ stale
             /\ book' = [book EXCEPT !.status = "failed",
                                     !.error = "Processing timeout"]
             /\ ~PageJustChanged]_vars

\* the Document is in the state the staleness sweep left it in
TimedOut == book.status = "failed" /\ book.error = "Processing timeout"

\* C12: after the staleness sweep has forced a Document to failed, no
\* synthesis task for any of its pages is scheduled or run, neither by a
\* pending task retry nor by the periodic retry sweep.
C12_NoTaskAfterTimeout ==
    [][TimedOut
          => /\ Len(jobs') = Len(jobs)
             /\ \A j \in DOMAIN jobs :
                   jobs[j].pc = "queued" => jobs'[j].pc = "queued"
             /\ ~io'.tts /\ ~io'.upload]_vars

\* the tasks of page p that are queued, waiting for a retry or running
Outstanding(p) ==
    {j \in DOMAIN jobs : jobs[j].page = p /\ jobs[j].pc \notin {"done", "dead"}}

\* C13: at any time there is at most one outstanding (queued, waiting for
\* retry, or running) synthesis job per page, counting the initial enqueue,
\* task retries and the periodic retry sweep.
C13_OneJobPerPage ==
    \A p \in DOMAIN pages : Cardinality(Outstanding(p)) <= 1

\* a page was synthesized and uploaded after an earlier attempt had failed
C14_Witness ==
    /\ io.tts /\ io.upload /\ io.error = "none"
    /\ faults > 0
    /\ pages[io.page].status = "completed"
    /\ pages[io.page].audio # NoAudio

\* C14: a completed page either has empty or whitespace-only text (skipped:
\* no audio asset, duration 0) or has the audio asset and duration written
\* after a successful synthesis and upload; a page is never completed by a
\* failed synthesis or a failed upload.
C14_CompletedHasAudioOrNoText ==
    /\ \A p \in DOMAIN pages :
          pages[p].status = "completed"
             => IF Blank(pages[p].text)
                THEN pages[p].audio = NoAudio /\ pages[p].duration = 0
                ELSE pages[p].audio # NoAudio /\ pages[p].duration \in Durations
    /\ io.error # "none" => pages[io.page].status \in {"failed", "pending"}

\* C15: no Document is completed while its total page count is 0, in queued
\* or inline mode.
C15_NoCompletedWithoutPages ==
    book.status = "completed" => book.total_pages > 0

\* C16: over any execution, with concurrent page tasks, retries and sweeps,
\* processing_progress never decreases from one state to the next.
C16_ProgressMonotonic ==
    [][book'.progress >= book.progress]_vars

\* C17: whenever a Document is completed, its total_duration equals the sum
\* of audio_duration over all of its pages, in queued and in inline mode.
C17_TotalDurationIsSum ==
    book.status = "completed"
       => book.total_duration = SumDuration(pages, Len(pages))

\* the two kinds of event that end a stream
Terminal(e) == e.type \in {"completed", "error"}

\* a stream that ended with 'completed', its tasks enqueued
C18_Witness ==
    /\ sse.pc = "closed"
    /\ sse.events[Len(sse.events)].type = "completed"
    /\ Len(jobs) = MaxPages

\* C18: every progress stream of the streamed upload ends with exactly one
\* terminal event, completed or error and never both, and no event is
\* emitted after it, on every path (authentication failure, validation
\* failure, extraction failure, unexpected exception, success).
C18_OneTerminalEvent ==
    /\ \A i \in 1..Len(sse.events) :
          Terminal(sse.events[i]) => i = Len(sse.events) /\ sse.pc = "closed"
    /\ sse.pc = "closed"
          => Len(sse.events) > 0 /\ Terminal(sse.events[Len(sse.events)])
    /\ (mode = "stream" /\ sse.pc # "closed") => ENABLED NextRequest

\* the pages of the page_progress events among the first n events
RECURSIVE ProgressPages(_, _)
ProgressPages(ev, n) ==
    IF n = 0 THEN << >>
    ELSE IF ev[n].type = "page_progress"
         THEN Append(ProgressPages(ev, n - 1), ev[n].page)
         ELSE ProgressPages(ev, n - 1)

\* the sequence 1, 2, ..., Len(q)
Increasing(q) == \A i \in 1..Len(q) : q[i] = i

\* an inline run has handled both pages of a two-page document
C19_Witness ==
    /\ mode = "inline" /\ inl.pc = "finish"
    /\ inl.called = <<1, 2>>
    /\ io.tts /\ io.page = 2

\* C19: in inline mode pages are synthesized one at a time in strictly
\* increasing page-number order, each page exactly once, and the per-page
\* progress callbacks and events are delivered in that same order.
C19_InlineOrder ==
    [][/\ mode = "inline" =>
            /\ \A p \in DOMAIN pages :
                  pages'[p] # pages[p] => p = inl.idx /\ inl.pc \in {"page", "run"}
            /\ (io'.tts \/ io'.upload) => io'.page = inl.idx
            /\ inl'.idx # inl.idx =>
                  \/ inl.pc = "idle" /\ inl'.idx = 1
                  \/ inl.pc \in {"page", "run"} /\ inl'.idx = inl.idx + 1
            /\ Increasing(inl'.called)
            /\ inl'.pc \in {"page", "run"} => Len(inl'.called) = inl'.idx - 1
            /\ inl'.pc = "finish" => Len(inl'.called) = Len(pages)
       /\ mode = "stream" =>
            /\ Increasing(ProgressPages(sse'.events, Len(sse'.events))
                            \o ProgressPages(sse'.buffered, Len(sse'.buffered)))
            /\ Len(ProgressPages(sse'.events, Len(sse'.events)))
                  + Len(sse'.buffered) = sse'.ocr]_vars

\* C20: in streamed mode each stage transition is emitted immediately: the
\* per-page progress event of page k is on the stream before the processing
\* of page k+1 starts, not after the whole stage has finished.
C20_ProgressEmittedImmediately ==
    mode = "stream" =>
       \A k \in 1..(sse.ocr - 1) :
           \E i \in 1..Len(sse.events) : sse.events[i] = Event("page_progress", k)

\* a call returned after the extraction of one of its two pages had failed
C21_Witness ==
    /\ ex.pc = "returned" /\ ex.success
    /\ Len(ex.raw) = 2 /\ ex.failed = {1}
    /\ ex.returned[2].text # << >>

\* C21: for each extraction strategy a failure while processing one page
\* never fails the call: the call returns success with exactly one entry
\* per page, numbered 1..total_pages in increasing order, the failed page's
\* text being the empty string.
C21_PageFailureIsAbsorbed ==
    /\ ex.pc = "loop" =>
          /\ Len(ex.pages_data) = ex.i - 1
          /\ \A p \in DOMAIN ex.pages_data : ex.pages_data[p].page_number = p
    /\ (ex.pc = "returned" /\ ex.i > 0) =>
          /\ ex.success
          /\ ex.total_pages = Len(ex.raw)
          /\ Len(ex.returned) = ex.total_pages
          /\ \A p \in DOMAIN ex.returned :
                /\ ex.returned[p].page_number = p
                /\ p \in ex.failed => ex.returned[p].text = << >>

\* C22: every extraction strategy applies the same normalization, which
\* collapses runs of whitespace inside a line, removes blank lines, trims,
\* and preserves line breaks: "a   b\n\nc" is returned as "a b\nc".
C22_LineBreaksPreserved ==
    \A p \in DOMAIN ex.pages_data :
        (p \notin ex.failed /\ ex.raw[p] = Sample)
           => ex.pages_data[p].text = <<"a", " ", "b", "\n", "c">>

\* a regular upload was rejected by the serializer
C23_Witness ==
    /\ mode = "regular" /\ sse.pc = "closed" /\ sse.reason = "invalid"
    /\ Len(doc) = MaxPages

\* C23: an upload rejected by input validation (missing file, not a PDF,
\* over 50 MB) or by failed authentication is rejected before any pipeline
\* stage starts and creates no Document, no Page and no synthesis task, in
\* the streamed and in the regular upload path.
C23_RejectedUploadCreatesNothing ==
    sse.reason \in {"auth", "invalid"}
       => /\ sse.pc = "closed"
          /\ sse.events[Len(sse.events)].type = "error"
          /\ book = NoBook /\ pages = << >> /\ jobs = << >>
          /\ sse.ocr = 0 /\ ~sse.tmp /\ sse.buffered = << >>

\* C25: in streamed mode, whenever the run is aborted by an unrecoverable
\* error, the Document is marked failed: no Document created by the run is
\* left processing or uploaded after the stream has ended with an error
\* event.
C25_AbortMarksDocumentFailed ==
    ( /\ mode = "stream" /\ sse.pc = "closed"
      /\ sse.events[Len(sse.events)].type = "error" )
       => book.status \notin {"processing", "uploaded"}

\* text is empty or consists of whitespace
AllWhitespace(text) == \A i \in 1..Len(text) : text[i] \in Whitespace

\* C24: the speech-synthesis engine called with empty or whitespace-only
\* text returns a deterministic non-error 'skipped, zero duration' result
\* and does not invoke the external speech service.
C24_EmptyTextIsNotAnError ==
    ( /\ tts.pc = "returned" /\ tts.call = "generate_audio"
      /\ AllWhitespace(tts.text) )
       => /\ tts.result.success /\ tts.result.error = "none"
          /\ tts.result.duration = 0
          /\ ~tts.service

\* the male voice of a supported language was returned for 'Male'
C27_Witness ==
    /\ tts.pc = "returned" /\ tts.call = "get_voice"
    /\ tts.language = "tamil" /\ tts.gender = "Male"
    /\ tts.voice = <<"ta-IN", "Valluvar">>

\* C27: voice selection is a total two-level lookup: for a supported
\* language and gender it returns that language's voice for that gender,
\* for any unsupported language the fixed default (Hindi, female) voice; it
\* never fails.
C27_VoiceLookupIsTotal ==
    /\ tts.pc = "start" => ENABLED NextSynthesis
    /\ tts.pc \in {"returned", "communicate"} /\ tts.voice # << >> =>
          LET l == Lower(tts.language)
              g == Lower(tts.gender)
          IN /\ (l \in Supported /\ g \in {"female", "male"})
                   => tts.voice = VOICE_OPTIONS[l][g]
             /\ l \notin Supported => tts.voice = <<"hi-IN", "Swara">>
             /\ l \in Supported => tts.voice[1] = VoicePrefix(l)
    /\ (tts.pc = "returned" /\ tts.call = "get_voice") => tts.voice # << >>

\* every page has ended completed or failed
AllPagesEnded ==
    \A p \in DOMAIN pages : pages[p].status \in {"completed", "failed"}

\* what generate_all_audio_for_book leaves on the Document for these page
\* outcomes: completed, progress 100 or the completed share, the durations
\* summed
InlineOutcome(ps) ==
    [status |-> "completed",
     progress |-> IF \A p \in DOMAIN ps : ps[p].status # "failed" THEN 100
                  ELSE Floor100(CompletedCount(ps), Len(ps)),
     total_duration |-> SumDuration(ps, Len(ps))]

\* C26: inline and queued orchestration agree on outcomes: for the same
\* document and the same per-page outcomes (success, skip, permanent
\* failure), both modes end with the same Page statuses and the same
\* Document status, processing_progress and total_duration, namely those the
\* inline run computes from the page outcomes.
C26_ModesAgree ==
    (Len(pages) > 0 /\ AllEnded /\ AllPagesEnded)
        => [status |-> book.status, progress |-> book.progress,
            total_duration |-> book.total_duration] = InlineOutcome(pages)

\* the attempt of task j failed in this step with a non-rate-limit error
FailedOther(j) ==
    /\ jobs[j].pc = "run" /\ jobs'[j].pc # "run"
    /\ io'.error = "other" /\ io'.page = jobs[j].page

\* C28: when a page task fails with a non-rate-limit error while retries
\* remain, the task is re-delivered on the same backoff schedule (60 s,
\* 180 s, 540 s) and the page is not marked failed; the page is marked failed
\* only once the retries are exhausted.
C28_FailedOnlyWhenExhausted ==
    [][\A j \in DOMAIN jobs \cap DOMAIN jobs' :
         FailedOther(j) =>
            IF jobs[j].retries < max_retries
            THEN /\ jobs'[j].pc = "queued"
                 /\ jobs'[j].retries = jobs[j].retries + 1
                 /\ jobs'[j].eta = Backoff[jobs[j].retries + 1]
                 /\ pages'[jobs[j].page].status # "failed"
            ELSE /\ jobs'[j].pc = "dead"
                 /\ pages'[jobs[j].page].status = "failed"]_vars

\* C29: once a page is completed its status, audio asset and duration never
\* change again, for any interleaving of duplicate or concurrent synthesis
\* jobs targeting that page (initial job, task retry, retry sweep): a job
\* that was already running when the page became completed cannot overwrite
\* it with failed, pending or processing.
C29_CompletedPageIsFinal ==
    [][\A p \in DOMAIN pages \cap DOMAIN pages' :
         pages[p].status = "completed"
            => /\ pages'[p].status = "completed"
               /\ pages'[p].audio = pages[p].audio
               /\ pages'[p].duration = pages[p].duration]_vars

\* the retry sweep enqueued a task for page p in this step
SweepEnqueued(p) ==
    \E j \in DOMAIN jobs' \ DOMAIN jobs :
        jobs'[j].page = p /\ jobs'[j].origin = "sweep"

\* C30: each run of the periodic retry sweep re-enqueues a synthesis job for
\* exactly the pages whose status is failed and whose failure is less than
\* 24 hours old, and moves those pages back to pending; pages in any other
\* status, and pages that failed more than 24 hours ago, are left unchanged
\* and get no job.  (A page created less than 24 hours ago has failed less
\* than 24 hours ago.)
C30_SweepRequeuesToPending ==
    [][SweepStep =>
         \A p \in DOMAIN pages :
            /\ (pages[p].status = "failed" /\ ~old)
                  => SweepEnqueued(p) /\ pages'[p].status = "pending"
            /\ pages[p].status # "failed"
                  => ~SweepEnqueued(p) /\ pages'[p] = pages[p]]_vars

\* task j made a step: it started, or its attempt ended
JobStep(j) == jobs'[j].pc # jobs[j].pc

\* the task of page 1 has exhausted its retries, and afterwards the task of
\* page 2 synthesized its page
C31_Witness ==
    /\ mode = "queued" /\ Len(pages) = 2
    /\ pages[1].status = "failed" /\ pages[1].error # "none"
    /\ \E j \in DOMAIN jobs : jobs[j].page = 1 /\ jobs[j].pc = "dead"
    /\ io.page = 2 /\ io.tts /\ io.error = "none"
    /\ pages[2].status = "completed" /\ pages[2].error = "none"

\* C31: in queued mode a synthesis task for page p, whatever its outcome
\* (success, skip, failure, retry), changes no field of any other page and
\* does not touch, prevent or fail the tasks of sibling pages: a task whose
\* countdown is over can start whatever happened to the others; a page
\* failure is recorded on that page only (the Document is unchanged).
C31_TaskTouchesOwnPageOnly ==
    /\ [][\A j \in DOMAIN jobs \cap DOMAIN jobs' :
            JobStep(j) =>
               /\ \A q \in DOMAIN pages \ {jobs[j].page} : pages'[q] = pages[q]
               /\ \A k \in DOMAIN jobs \ {j} : jobs'[k] = jobs[k]
               /\ io'.error # "none"
                     => /\ book' = book
                        /\ io'.page = jobs[j].page
                        /\ pages'[jobs[j].page].status \in {"failed", "pending"}
                        /\ pages'[jobs[j].page].status = "failed"
                              => pages'[jobs[j].page].error = io'.error]_vars
    /\ [](\A k \in DOMAIN jobs :
            (jobs[k].pc = "queued" /\ jobs[k].eta = 0) => ENABLED JobStart(k))

\* an inline run went on after page 1 failed and has finished its loop
C32_Witness ==
    /\ mode = "inline" /\ inl.pc = "finish" /\ Len(inl.lpages) = 2
    /\ pages[1].status = "failed" /\ pages[1].error # "none"
    /\ pages[2].status = "completed"
    /\ inl.failed_count = 1 /\ inl.called = <<1, 2>>

\* C32: in inline mode a failure of one page's synthesis or upload is
\* absorbed: that page ends failed with the error detail stored, the run
\* continues with all later pages, and the returned counts satisfy
\* success_count + skipped_count + failed_count = total_pages.
C32_InlineFailureAbsorbed ==
    /\ [][(mode = "inline" /\ io'.error # "none" /\ inl.pc = "run") =>
            /\ pages'[inl.idx].status = "failed"
            /\ pages'[inl.idx].error = io'.error
            /\ inl'.failed_count = inl.failed_count + 1
            /\ inl'.idx = inl.idx + 1
            /\ inl'.pc = IF inl.idx < Len(inl.lpages) THEN "page" ELSE "finish"]_vars
    /\ [](inl.pc \in {"page", "run"} =>
            inl.success_count + inl.skipped_count + inl.failed_count = inl.idx - 1)
    /\ []((inl.pc = "finish" \/ (inl.pc = "idle" /\ inl.runs > 0)) =>
            inl.success_count + inl.skipped_count + inl.failed_count = Len(pages))

\* the step is the failure handler of process_book_pdf
ExtractionFailedStep ==
    /\ extract.pc = "run" /\ extract'.pc \in {"queued", "dead"}
    /\ book'.status = "failed"

\* C33: a Document's error message is set only when extraction of the whole
\* document fails outright; failures of individual pages never set or
\* change the Document's error message.
C33_ErrorOnlyFromExtraction ==
    [][book'.error # book.error
          => ExtractionFailedStep /\ book'.error = "extraction"]_vars

\* the upload raised after the synthesis had written the temporary file,
\* and the task is re-delivered
C39_Witness ==
    /\ io.upload /\ io.error # "none" /\ io.temp = "removed"
    /\ \E j \in DOMAIN jobs :
          jobs[j].page = io.page /\ jobs[j].pc = "queued" /\ jobs[j].retries > 0

\* C39: after a page-synthesis run ends, by success, empty-text skip,
\* synthesis failure, upload failure or retry, no temporary audio file
\* created by that run remains: a run that reached the synthesis removed
\* its file, a run that returned before created none.
C39_NoTempFileRemains ==
    /\ io.temp # "left"
    /\ \A j \in DOMAIN jobs :
          /\ jobs[j].pc \in {"queued", "done", "dead"} => ~jobs[j].tmp
          /\ (io.temp = "open" /\ io.page = jobs[j].page) =>
                \E k \in DOMAIN jobs : jobs[k].tmp /\ jobs[k].pc = "aggregate"
    /\ (io.tts /\ (mode = "inline" \/ io.error # "none")) => io.temp = "removed"
    /\ io.returned = "generated" => io.temp = "removed"
    /\ io.returned \in {"Already processed", "No text content",
                        "No text content (skipped)"} => io.temp = "none"

\* the step is the failure of the download or of the extraction itself
ExtractionFailsOutright == extract.pc = "extract" /\ io'.error = "extraction"

\* every attempt failed at the extraction and the retries are exhausted
C34_Witness ==
    /\ extract.pc = "dead" /\ extract.retries = max_retries
    /\ book.status = "failed" /\ book.error = "extraction"
    /\ pages = << >> /\ jobs = << >>

\* C34: in queued mode, when extraction of a document fails outright the
\* run is aborted: the Document becomes failed with the extraction error
\* detail stored as its error message, and that run creates no Page and
\* enqueues no synthesis task; a Document whose every run failed has no
\* Page and no task.
C34_ExtractionFailureAborts ==
    /\ [][ExtractionFailsOutright =>
             /\ book'.status = "failed" /\ book'.error = io'.error
             /\ pages' = pages /\ jobs' = jobs
             /\ extract'.pc \in {"queued", "dead"}]_vars
    /\ []((extract.pc \in {"queued", "dead"} /\ book.total_pages = 0
           /\ extract.retries > 0)
             => /\ book.status = "failed" /\ book.error = "extraction"
                /\ pages = << >> /\ jobs = << >>)

\* C35: in every reachable state after the persist stage, the Pages of a
\* Document have distinct page numbers that form exactly 1..total_pages;
\* they are appended in one batch (all or none) and never deleted or
\* renumbered, also when the extraction task fails part-way, is retried, or
\* is delivered more than once.
C35_PagesAreOneBatch ==
    /\ [](extract.pc # "create" => Len(pages) \in {0, book.total_pages})
    /\ [][/\ Len(pages') >= Len(pages)
          /\ \A p \in DOMAIN pages : pages'[p].text = pages[p].text]_vars

\* the result of the call for the page outcomes that occurred, as it is
\* when no callback is supplied: success, one entry per page
SameAsWithoutCallback(e) ==
    /\ e.success
    /\ e.total_pages = Len(e.raw)
    /\ Len(e.returned) = Len(e.raw)
    /\ \A p \in DOMAIN e.returned :
          /\ e.returned[p].page_number = p
          /\ e.returned[p].text \in
                IF p \in e.failed THEN {<< >>}
                ELSE {CleanText(e.strategy, e.raw[p]), e.raw[p]}

\* C36: the extraction result (success flag, total page count, and the
\* sequence of page numbers and texts) is the same whether or not a
\* progress callback is supplied, whatever the callback does, including
\* when the callback itself raises.
C36_CallbackDoesNotAlterResult ==
    (ex.pc = "returned" /\ ex.i > 0) => SameAsWithoutCallback(ex)

\* no leading or trailing whitespace, no blank line, no run of two spaces
Normalized(text) ==
    \/ text = << >>
    \/ /\ text[1] \notin Whitespace /\ text[Len(text)] \notin Whitespace
       /\ \A i \in 1..(Len(text) - 1) :
             ~(text[i] \in Whitespace /\ text[i + 1] \in Whitespace)

\* normalizing a normalized text changes nothing
Idempotent ==
    \A strategy \in Strategies, text \in RawTexts :
        CleanText(strategy, CleanText(strategy, text)) = CleanText(strategy, text)

\* C38: normalization is idempotent and every page text returned by the
\* extraction engine is a fixed point of it (no leading or trailing
\* whitespace, no blank lines, no run of two or more spaces), on every
\* path, including text obtained by the vision strategy's retry after a
\* quota signal.
C38_ReturnedTextIsNormalized ==
    /\ Idempotent
    /\ \A p \in DOMAIN ex.pages_data :
          /\ CleanText(ex.strategy, ex.pages_data[p].text) = ex.pages_data[p].text
          /\ Normalized(ex.pages_data[p].text)

\* C37: in the vision-model strategy, when a page's request gets a
\* quota/rate-limit signal, the engine waits the fixed 60 s cooldown and
\* retries that page exactly once (two requests, one wait of 60 s); if the
\* retry fails the page gets empty text and extraction proceeds to the next
\* page, so the call still returns success with all pages.
C37_QuotaCooldownThenOneRetry ==
    /\ \A p \in DOMAIN ex.log :
          ex.log[p].quota =>
             /\ ex.log[p].waits = <<60>>
             /\ ex.log[p].requests = 2
    /\ ex.pc = "returned" =>
          /\ ex.success /\ ex.total_pages = Len(ex.raw)
          /\ Len(ex.returned) = Len(ex.raw)
          /\ \A p \in DOMAIN ex.returned : ex.returned[p].page_number = p

\* every page has ended and no task is waiting, queued or running
Settled ==
    /\ \A p \in DOMAIN pages : pages[p].status \in {"completed", "failed"}
    /\ \A j \in DOMAIN jobs : jobs[j].pc \in {"done", "dead"}

====
